---- MODULE Spec2Model ----
(***************************************************************************)
(* DocParser backend: the document processing pipeline.                    *)
(*                                                                         *)
(*   routes/upload.ts    POST /upload, /upload/compare, /upload/register   *)
(*   routes/verify.ts    POST /verify                                      *)
(*   services            DocumentTypeService, FileService, LLMService,     *)
(*                       VerificationService, DatabaseService              *)
(*                                                                         *)
(* One request is in flight at a time.  Every await of a handler is a      *)
(* separate step; the synchronous code between two awaits is part of the   *)
(* step that precedes it.  What the file system, the OCR engine, the       *)
(* model provider and the database answer is chosen nondeterministically.  *)
(*                                                                         *)
(* A file name (originalname) is represented by the sequence of its        *)
(* '.'-separated segments: "Doc.PDF" is <<"Doc", "PDF">>, "pdf" is         *)
(* <<"pdf">>.  Strings that the code builds (messages) are built here too. *)
(***************************************************************************)
EXTENDS Integers, Sequences, FiniteSets, TLC

VARIABLES
    registry,             \* DocumentTypeService.documentTypes
    req,                  \* the request being handled
    pc,                   \* position of the handler
    i,                    \* loop index over req.files (1-based)
    savedFileNames,       \* temp files stored by saveFile, in order (file index)
    disk,                 \* temp files present in the upload directory
    deleteCalled,         \* temp files deleteFile has been called for
    individualOffers,     \* compare / register: offers built so far
    verificationResults,  \* verify: results pushed so far
    llmCalls,             \* processDocument invocations of the request, in order
    pending,              \* outcome carried through a finally block
    ocr,                  \* OCR workers created and not yet terminated
    db,                   \* DatabaseService singleton and the inserted rows
    resp,                 \* the HTTP response
    arg,                  \* pure-function specifications: the input
    ret                   \* pure-function specifications: the output

vars == <<registry, req, pc, i, savedFileNames, disk, deleteCalled,
          individualOffers, verificationResults, llmCalls, pending, ocr, db,
          resp, arg, ret>>

----------------------------------------------------------------------------
(* Bounds of the model *)

MaxVerifyFiles == 2    \* files of a generated /verify request (limits.files is 10)
MaxTextLen == 3        \* characters of an extracted text, words of a document text
MaxTemplateLen == 3    \* words of a prompt template

(* Program constants *)

MB == 1048576
EnvMaxFileSize == 10485760     \* parseInt(process.env.MAX_FILE_SIZE || '10485760')
UploadMultipleFiles == 3       \* uploadMultiple limits.files

----------------------------------------------------------------------------
(* Generic helpers *)

Range(s) == {s[k] : k \in 1..Len(s)}

Last(s) == s[Len(s)]

\* Math.round(n / 1024 / 1024)
RoundMB(n) == (2 * n + 1048576) \div (2 * 1048576)

RECURSIVE Join(_, _)
\* Array.prototype.join
Join(s, sep) ==
    IF Len(s) = 0 THEN ""
    ELSE IF Len(s) = 1 THEN s[1]
    ELSE s[1] \o sep \o Join(Tail(s), sep)

\* all sequences over S of length lo..hi
SeqsOf(S, lo, hi) == UNION {[1..n -> S] : n \in lo..hi}

\* String.prototype.toLowerCase on the segments that occur in file names
toLowerCase(s) ==
    CASE s = "PDF" -> "pdf"
      [] s = "Doc" -> "doc"
      [] OTHER -> s

\* file.originalname as a string
originalname(file) == Join(file.name, ".")

\* path.extname(file.originalname): the text from the last '.', or '' when
\* there is no '.' or the only '.' is the first character
extname(name) ==
    IF Len(name) < 2 THEN ""
    ELSE IF Len(name) = 2 /\ name[1] = "" THEN ""
    ELSE "." \o Last(name)

----------------------------------------------------------------------------
(* Errors *)

AppError(message, code, statusCode) ==
    [app |-> TRUE, message |-> message, code |-> code, statusCode |-> statusCode]

\* a plain Error (TypeError, the LLMService constructor's Error)
PlainError(message) ==
    [app |-> FALSE, message |-> message, code |-> "", statusCode |-> 0]

NoError == [app |-> FALSE, message |-> "", code |-> "", statusCode |-> 0]

----------------------------------------------------------------------------
(* DocumentTypeService *)

\* maxFiles / minFiles = 0 stands for an absent (undefined) field
DocType(id, formats, maxFileSize, promptTemplate, minFiles, maxFiles) ==
    [id |-> id, supportedFormats |-> formats, maxFileSize |-> maxFileSize,
     promptTemplate |-> promptTemplate, minFiles |-> minFiles, maxFiles |-> maxFiles]

getDefaultDocumentTypes ==
    << DocType("kaufvertrag", <<"pdf", "docx">>, 15 * MB, "kaufvertrag_prompt.txt", 0, 0),
       DocType("angebotsvergleich", <<"pdf">>, 15 * MB, "angebotsvergleich_prompt.txt", 2, 3),
       DocType("invoice", <<"pdf", "png", "jpg", "jpeg">>, 10 * MB, "invoice_prompt.txt", 0, 0),
       DocType("receipt", <<"pdf", "png", "jpg", "jpeg">>, 5 * MB, "receipt_prompt.txt", 0, 0),
       DocType("business_card", <<"png", "jpg", "jpeg">>, 2 * MB, "business_card_prompt.txt", 0, 0),
       DocType("resume", <<"pdf", "docx">>, 5 * MB, "resume_prompt.txt", 0, 0),
       DocType("haushaltsrechnung", <<"pdf">>, 2 * MB, "haushaltsrechnung_prompt.txt", 0, 0),
       DocType("angebotserfassung", <<"pdf">>, 15 * MB, "angebotsvergleich_prompt.txt", 1, 3),
       DocType("document_verification", <<"pdf", "png", "jpg", "jpeg">>, 15 * MB, "", 1, 10) >>

RegistryIds(reg) == {reg[k].id : k \in 1..Len(reg)}

\* documentTypes.some(type => type.id === id)
validateDocumentType(reg, id) == \E k \in 1..Len(reg) : reg[k].id = id

\* documentTypes.find(type => type.id === id): the first match; "undefined"
\* is the record with found = FALSE
getDocumentTypeById(reg, id) ==
    IF validateDocumentType(reg, id)
    THEN [found |-> TRUE,
          type |-> reg[CHOOSE k \in 1..Len(reg) :
                          /\ reg[k].id = id
                          /\ \A j \in 1..(k - 1) : reg[j].id # id]]
    ELSE [found |-> FALSE, type |-> DocType("", <<>>, 0, "", 0, 0)]

getDocumentType(reg, id) == getDocumentTypeById(reg, id)

\* file.originalname.split('.').pop()?.toLowerCase()
fileExtensionOf(file) == toLowerCase(Last(file.name))

validateFileForDocumentType_swapped(reg, file, documentTypeId) ==
    LET docType == getDocumentTypeById(reg, documentTypeId)
        fileExtension == fileExtensionOf(file)
    IN  IF ~docType.found
        THEN [isValid |-> FALSE, error |-> "Unsupported document type"]
        ELSE IF fileExtension \notin Range(docType.type.supportedFormats)
        THEN [isValid |-> FALSE,
              error |-> "Unsupported file format. Supported formats: "
                        \o Join(docType.type.supportedFormats, ", ")]
        ELSE IF file.size > docType.type.maxFileSize
        THEN [isValid |-> FALSE,
              error |-> "File size exceeds maximum limit of "
                        \o ToString(RoundMB(docType.type.maxFileSize)) \o "MB"]
        ELSE [isValid |-> TRUE, error |-> ""]

validateFileForDocumentType(reg, file, documentTypeId) ==
    LET docType == getDocumentTypeById(reg, documentTypeId)
        fileExtension == fileExtensionOf(file)
    IN  IF ~docType.found
        THEN [isValid |-> FALSE, error |-> "Unsupported document type"]
        ELSE IF file.size > docType.type.maxFileSize
        THEN [isValid |-> FALSE,
              error |-> "File size exceeds maximum limit of "
                        \o ToString(RoundMB(docType.type.maxFileSize)) \o "MB"]
        ELSE IF fileExtension \notin Range(docType.type.supportedFormats)
        THEN [isValid |-> FALSE,
              error |-> "Unsupported file format. Supported formats: "
                        \o Join(docType.type.supportedFormats, ", ")]
        ELSE [isValid |-> TRUE, error |-> ""]

----------------------------------------------------------------------------
(* Inputs *)

FileNames == { <<"Doc", "PDF">>, <<"pdf">>, <<"scan", "png">>, <<"doc", "txt">> }

FileSizes == { 3 * MB, 11 * MB }

Files == [name : FileNames, size : FileSizes]

\* the files of generated /verify requests: the image is left to POST /upload
VerifyFiles == {f \in Files : f.name # <<"scan", "png">>}

\* ids a request may name: the registered ones, an unknown one, none
DocumentTypeIds == RegistryIds(getDefaultDocumentTypes) \cup {"unknown", ""}


----------------------------------------------------------------------------
(* FileService *)

\* fileService.maxFileSize
maxFileSize == EnvMaxFileSize

\* what fs.promises.writeFile, readFile, unlink can answer
IoOutcomes == {"ok", "fail"}

\* saveFile: the size check, then the write
saveFile(file, write) ==
    IF file.size > maxFileSize
    THEN [ok |-> FALSE,
          error |-> AppError("File size " \o ToString(file.size)
                             \o " exceeds maximum limit of " \o ToString(maxFileSize),
                             "FILE_TOO_LARGE", 413)]
    ELSE IF write = "fail"
    THEN [ok |-> FALSE,
          error |-> AppError("Failed to save uploaded file", "NETWORK_ERROR", 500)]
    ELSE [ok |-> TRUE, error |-> NoError]

\* readFile of the temp file
readFile(onDisk, read) ==
    IF ~onDisk
    THEN [ok |-> FALSE, error |-> AppError("File not found", "VALIDATION_ERROR", 404)]
    ELSE IF read = "fail"
    THEN [ok |-> FALSE, error |-> AppError("Failed to read file", "NETWORK_ERROR", 500)]
    ELSE [ok |-> TRUE, error |-> NoError]

\* what pdf-parse, tesseract's recognize and mammoth can answer
ExtractorOutcomes == {"text", "empty", "fail"}

\* path.extname(fileName).toLowerCase() of the temp file: saveFile names it
\* `${uuid}_${Date.now()}${path.extname(file.originalname)}`
tempFileExtension(file) ==
    LET ext == extname(file.name)
    IN  IF ext = "" THEN "" ELSE "." \o toLowerCase(Last(file.name))

extractTextFromPDF(outcome) ==
    CASE outcome = "text" -> [ok |-> TRUE, error |-> NoError]
      [] outcome = "empty" ->
            [ok |-> FALSE,
             error |-> AppError("PDF contains no readable text", "PROCESSING_TIMEOUT", 400)]
      [] OTHER ->
            [ok |-> FALSE,
             error |-> AppError("Failed to extract text from PDF", "PROCESSING_TIMEOUT", 500)]

extractTextFromDOCX(outcome) ==
    CASE outcome = "text" -> [ok |-> TRUE, error |-> NoError]
      [] outcome = "empty" ->
            [ok |-> FALSE,
             error |-> AppError("DOCX contains no readable text", "PROCESSING_TIMEOUT", 400)]
      [] OTHER ->
            [ok |-> FALSE,
             error |-> AppError("Failed to extract text from DOCX", "PROCESSING_TIMEOUT", 500)]

\* extractTextFromImage: the result of the try / catch around recognize
recognizeResult(outcome) ==
    CASE outcome = "text" -> [ok |-> TRUE, error |-> NoError]
      [] outcome = "empty" ->
            [ok |-> FALSE,
             error |-> AppError("No readable text found in image", "PROCESSING_TIMEOUT", 400)]
      [] OTHER ->
            [ok |-> FALSE,
             error |-> AppError("Failed to extract text from image using OCR",
                                "PROCESSING_TIMEOUT", 500)]

ImageExtensions == {".png", ".jpg", ".jpeg"}

unsupportedFileType(ext) ==
    AppError("Unsupported file type: " \o ext, "INVALID_FILE_TYPE", 400)

terminateInFinally_onSuccessOnly(workers, result) ==
    IF result.ok THEN workers - 1 ELSE workers

\* extractTextFromImage, finally: if (worker) await worker.terminate()
terminateInFinally(workers, result) ==
    IF workers > 0 THEN workers - 1 ELSE workers

----------------------------------------------------------------------------
(* LLMService *)

\* what client.chat.completions.create can answer
ProviderOutcomes == {"content", "noContent", "status401", "status429", "status400",
                     "ECONNREFUSED", "ENOTFOUND", "otherError"}

\* processDocument: the reply, or the AppError its catch block throws.  The
\* AppError thrown for an empty reply is thrown inside the try block, so the
\* catch block maps it too: it has neither status nor a connection code.
processDocument(outcome) ==
    CASE outcome = "content" -> [ok |-> TRUE, error |-> NoError]
      [] outcome = "noContent" ->
            [ok |-> FALSE,
             error |-> AppError("LLM processing failed: No response received from LLM service",
                                "LLM_SERVICE_ERROR", 500)]
      [] outcome = "status401" ->
            [ok |-> FALSE, error |-> AppError("Invalid API key", "LLM_SERVICE_ERROR", 500)]
      [] outcome = "status429" ->
            [ok |-> FALSE,
             error |-> AppError("Rate limit exceeded. Please try again later.",
                                "LLM_SERVICE_ERROR", 429)]
      [] outcome = "status400" ->
            [ok |-> FALSE,
             error |-> AppError("Invalid request to LLM service", "LLM_SERVICE_ERROR", 400)]
      [] outcome \in {"ECONNREFUSED", "ENOTFOUND"} ->
            [ok |-> FALSE,
             error |-> AppError("Unable to connect to LLM service", "NETWORK_ERROR", 503)]
      [] OTHER ->
            [ok |-> FALSE,
             error |-> AppError("LLM processing failed: provider error",
                                "LLM_SERVICE_ERROR", 500)]

\* what the prompts directory holds under the type's promptTemplate name when
\* it is looked up: nothing, a file with text, an empty file, or something
\* readFileSync throws on
PromptFiles == {"missing", "text", "empty", "unreadable"}

\* the keys of the built-in templates
DefaultTemplateIds == {"kaufvertrag", "invoice", "receipt", "business_card",
                       "resume", "haushaltsrechnung"}

\* templates[documentTypeId] || templates.kaufvertrag
getDefaultPromptTemplate(documentTypeId) ==
    IF documentTypeId \in DefaultTemplateIds
    THEN "default:" \o documentTypeId
    ELSE "default:kaufvertrag"

\* getPromptTemplate: null for an unknown id; the content of the prompt file
\* if it exists; the built-in template if it does not or cannot be read
getPromptTemplate(reg, documentTypeId, promptFile) ==
    IF ~getDocumentTypeById(reg, documentTypeId).found THEN "null"
    ELSE CASE promptFile = "text" -> "file"
           [] promptFile = "empty" -> ""
           [] OTHER -> getDefaultPromptTemplate(documentTypeId)


----------------------------------------------------------------------------
(* VerificationService *)

\* verificationChecklists.json: a checklist with items and one without
checklists ==
    [t \in {"austrian_passport", "empty_checklist"} |->
        IF t = "austrian_passport"
        THEN [items |-> << [id |-> "format_layout",
                            label |-> "Contains Austrian passport format/layout"],
                           [id |-> "photo_present",
                            label |-> "Contains a passport photo"] >>]
        ELSE [items |-> <<>>]]

\* Object.keys(this.checklists)
getSupportedDocumentTypes == DOMAIN checklists

\* this.checklists[documentType] || null
getChecklist(documentType) ==
    IF documentType \in DOMAIN checklists
    THEN [found |-> TRUE, items |-> checklists[documentType].items]
    ELSE [found |-> FALSE, items |-> <<>>]

\* JavaScript values a reply may carry in an item's `passed`; Boolean(v)
PassedValues == {"true", "false", "undefined", "'false'"}

Boolean(v) == v \in {"true", "'false'"}

\* an item's `reason` in a reply: a text, or absent ("" is falsy as well)
ReasonValues == {"criterion met", ""}

\* an entry of the reply's verification object for one item id
Entries ==
    {[kind |-> "absent", passed |-> "undefined", reason |-> ""],
     [kind |-> "nonObject", passed |-> "undefined", reason |-> ""]}
    \cup [kind : {"object"}, passed : PassedValues, reason : ReasonValues]

ItemIds(checklist) == {checklist.items[k].id : k \in 1..Len(checklist.items)}

\* the parsed replies for a checklist: without a verification object, or
\* with one that has an entry, a non-object or nothing for each item id
ParsedReplies(checklist) ==
    {[hasVerification |-> FALSE,
      verification |-> [id \in ItemIds(checklist) |->
                          [kind |-> "absent", passed |-> "undefined", reason |-> ""]]]}
    \cup [hasVerification : {TRUE}, verification : [ItemIds(checklist) -> Entries]]

notFoundReason == "Item not found in verification response"

dataNotFoundReason == "Verification data not found in LLM response"

parseVerificationResponse_dropMissing(parsedData, checklist) ==
    IF ~parsedData.hasVerification
    THEN [id \in ItemIds(checklist) |-> [passed |-> FALSE, reason |-> dataNotFoundReason]]
    ELSE [id \in {d \in ItemIds(checklist) : parsedData.verification[d].kind = "object"} |->
            LET itemData == parsedData.verification[id]
            IN  [passed |-> Boolean(itemData.passed),
                 reason |-> IF itemData.reason = ""
                            THEN "No reason provided" ELSE itemData.reason]]

\* parseVerificationResponse: the `verification` map it returns
parseVerificationResponse(parsedData, checklist) ==
    IF ~parsedData.hasVerification
    THEN [id \in ItemIds(checklist) |-> [passed |-> FALSE, reason |-> dataNotFoundReason]]
    ELSE [id \in ItemIds(checklist) |->
            LET itemData == parsedData.verification[id]
            IN  IF itemData.kind = "object"
                THEN [passed |-> Boolean(itemData.passed),
                      reason |-> IF itemData.reason = ""
                                 THEN "No reason provided" ELSE itemData.reason]
                ELSE [passed |-> FALSE, reason |-> notFoundReason]]

\* number of entries of a checklist result that passed
RECURSIVE CountPassed(_)
CountPassed(results) ==
    IF Len(results) = 0 THEN 0
    ELSE (IF results[1].passed THEN 1 ELSE 0) + CountPassed(Tail(results))

\* verifyDocument, from the parsed reply to the VerificationResult
buildVerificationResult(file, documentType, checklist, parsedData) ==
    LET verification == parseVerificationResponse(parsedData, checklist)
        checklistResults ==
            [k \in 1..Len(checklist.items) |->
                LET item == checklist.items[k]
                    present == item.id \in DOMAIN verification
                IN  [id |-> item.id,
                     label |-> item.label,
                     passed |-> IF present THEN verification[item.id].passed ELSE FALSE,
                     reason |-> IF present /\ verification[item.id].reason # ""
                                THEN verification[item.id].reason ELSE "Not checked"]]
        passedCount == CountPassed(checklistResults)
        totalCount == Len(checklistResults)
    IN  [documentType |-> documentType,
         fileName |-> originalname(file),
         verified |-> passedCount = totalCount,
         checklist |-> checklistResults,
         passedCount |-> passedCount,
         totalCount |-> totalCount]

failedResult_fixedReason(file, documentType, error) ==
    LET checklist == getChecklist(documentType)
    IN  [documentType |-> documentType,
         fileName |-> originalname(file),
         verified |-> FALSE,
         checklist |-> [k \in 1..Len(checklist.items) |->
                          [id |-> checklist.items[k].id,
                           label |-> checklist.items[k].label,
                           passed |-> FALSE,
                           reason |-> "Verification failed"]],
         passedCount |-> 0,
         totalCount |-> Len(checklist.items)]

\* POST /verify, catch: the result synthesized for a document that failed
failedResult(file, documentType, error) ==
    LET checklist == getChecklist(documentType)
    IN  [documentType |-> documentType,
         fileName |-> originalname(file),
         verified |-> FALSE,
         checklist |-> [k \in 1..Len(checklist.items) |->
                          [id |-> checklist.items[k].id,
                           label |-> checklist.items[k].label,
                           passed |-> FALSE,
                           reason |-> IF error.message = ""
                                      THEN "Verification failed" ELSE error.message]],
         passedCount |-> 0,
         totalCount |-> Len(checklist.items)]

NoResult ==
    [documentType |-> "", fileName |-> "", verified |-> FALSE, checklist |-> <<>>,
     passedCount |-> 0, totalCount |-> 0]


----------------------------------------------------------------------------
(* Requests and responses *)

\* order of Object.keys(checklists) in the "Supported types" message
supportedTypes == <<"austrian_passport", "empty_checklist">>

\* what a /verify request may name as the type of one file ("" : nothing)
VerifyTypeValues == getSupportedDocumentTypes \cup {"unknown", ""}

\* parseInt(process.env.MAX_FILE_SIZE || '15728640') in POST /verify
VerifyMaxSize == 15728640

allowedExtensions == <<"pdf", "png", "jpg", "jpeg">>

NoRequest ==
    [mode |-> "none", files |-> <<>>, documentType |-> "", dtForm |-> "none",
     documentTypes |-> <<>>]

UploadRequests ==
    [mode : {"upload"}, files : SeqsOf(Files, 0, 1), documentType : DocumentTypeIds,
     dtForm : {"none"}, documentTypes : {<<>>}]

MultiRequests ==
    [mode : {"compare", "register"}, files : SeqsOf(Files, 0, UploadMultipleFiles),
     documentType : DocumentTypeIds, dtForm : {"none"}, documentTypes : {<<>>}]

\* documentTypes arrives as a JSON array ("array"), as text that is not JSON
\* ("invalid"), or as one field per file ("fields")
VerifyRequests ==
    UNION { [mode : {"verify"}, files : {fs}, documentType : {""},
             dtForm : {"array", "invalid", "fields"},
             documentTypes : SeqsOf(VerifyTypeValues,
                                    IF Len(fs) = 0 THEN 0 ELSE Len(fs) - 1, Len(fs))]
            : fs \in SeqsOf(VerifyFiles, 0, MaxVerifyFiles) }

Requests == UploadRequests \cup MultiRequests \cup VerifyRequests

NoData == [kind |-> "none"]

NoResponse == [status |-> "none", error |-> NoError, data |-> NoData]

\* errorHandler: the body sent for an AppError
ErrorResponse(error) == [status |-> "error", error |-> error, data |-> NoData]

SuccessResponse(data) == [status |-> "success", error |-> NoError, data |-> data]

NoPending == [kind |-> "none", error |-> NoError, result |-> NoResult]

\* multer: limits.fileSize, as errorHandler reports it.  The requests drawn
\* here never hold more files than limits.files allows, and every file is
\* sent with a mimetype that fileFilter lets through.
multer(files) ==
    IF \E k \in 1..Len(files) : files[k].size > EnvMaxFileSize
    THEN AppError("File size exceeds the maximum limit", "FILE_TOO_LARGE", 400)
    ELSE NoError

\* the index of the first file that fails its check, 0 if none; failed[k]
\* tells whether file k fails
FirstFailing(failed) ==
    IF \E k \in 1..Len(failed) : failed[k]
    THEN CHOOSE k \in 1..Len(failed) :
            failed[k] /\ \A j \in 1..(k - 1) : ~failed[j]
    ELSE 0

\* POST /upload: the checks before the try block
validateUpload(reg, r) ==
    IF Len(r.files) = 0
    THEN AppError("No file uploaded", "VALIDATION_ERROR", 400)
    ELSE IF r.documentType = ""
    THEN AppError("Document type is required", "VALIDATION_ERROR", 400)
    ELSE IF ~validateDocumentType(reg, r.documentType)
    THEN AppError("Unsupported document type", "UNSUPPORTED_DOCUMENT_TYPE", 400)
    ELSE LET fileValidation == validateFileForDocumentType(reg, r.files[1], r.documentType)
         IN  IF ~fileValidation.isValid
             THEN AppError(fileValidation.error, "VALIDATION_ERROR", 400)
             ELSE NoError

\* POST /upload/compare and /upload/register: the checks before the try block
validateMulti(reg, r) ==
    LET docType == getDocumentType(reg, r.documentType)
        what == IF r.mode = "compare" THEN "comparison" ELSE "registration"
        invalid(file) == ~validateFileForDocumentType(reg, file, r.documentType).isValid
        k == FirstFailing([j \in 1..Len(r.files) |-> invalid(r.files[j])])
    IN  IF Len(r.files) = 0
        THEN AppError("No files uploaded", "VALIDATION_ERROR", 400)
        ELSE IF r.documentType = ""
        THEN AppError("Document type is required", "VALIDATION_ERROR", 400)
        ELSE IF ~validateDocumentType(reg, r.documentType)
        THEN AppError("Unsupported document type", "UNSUPPORTED_DOCUMENT_TYPE", 400)
        ELSE IF ~docType.found \/ docType.type.maxFiles = 0 \/ docType.type.minFiles = 0
        THEN AppError("Document type does not support " \o what,
                      "UNSUPPORTED_DOCUMENT_TYPE", 400)
        ELSE IF Len(r.files) < docType.type.minFiles \/ Len(r.files) > docType.type.maxFiles
        THEN AppError("Document type requires between " \o ToString(docType.type.minFiles)
                      \o " and " \o ToString(docType.type.maxFiles) \o " files",
                      "VALIDATION_ERROR", 400)
        ELSE IF k # 0
        THEN AppError("File validation failed: "
                      \o validateFileForDocumentType(reg, r.files[k], r.documentType).error,
                      "VALIDATION_ERROR", 400)
        ELSE NoError

\* POST /verify: the checks before the try block
validateVerify(r) ==
    LET n == Len(r.files)
        m == Len(r.documentTypes)
        missing == {k \in 1..n : k > m \/ r.documentTypes[k] = ""}
        unsupported == {k \in 1..m : r.documentTypes[k] \notin getSupportedDocumentTypes}
        tooLarge(file) == file.size > VerifyMaxSize
        badFormat(file) == fileExtensionOf(file) \notin Range(allowedExtensions)
        bad(file) == tooLarge(file) \/ badFormat(file)
        k == FirstFailing([j \in 1..Len(r.files) |-> bad(r.files[j])])
        firstOf(S) == CHOOSE x \in S : \A y \in S : x <= y
    IN  IF n = 0
        THEN AppError("No files uploaded", "VALIDATION_ERROR", 400)
        ELSE IF r.dtForm = "invalid"
        THEN AppError("Invalid document types format. Expected JSON array.",
                      "VALIDATION_ERROR", 400)
        ELSE IF r.dtForm = "fields" /\ missing # {}
        THEN AppError("Document type for file " \o ToString(firstOf(missing)) \o " is required",
                      "VALIDATION_ERROR", 400)
        ELSE IF m # n
        THEN AppError("Number of document types (" \o ToString(m)
                      \o ") must match number of files (" \o ToString(n) \o ")",
                      "VALIDATION_ERROR", 400)
        ELSE IF unsupported # {}
        THEN AppError("Unsupported document type for verification: "
                      \o r.documentTypes[firstOf(unsupported)] \o ". Supported types: "
                      \o Join(supportedTypes, ", "),
                      "UNSUPPORTED_DOCUMENT_TYPE", 400)
        ELSE IF k # 0 /\ tooLarge(r.files[k])
        THEN AppError("File size exceeds maximum limit for " \o originalname(r.files[k]),
                      "FILE_TOO_LARGE", 400)
        ELSE IF k # 0
        THEN AppError("Unsupported file format for " \o originalname(r.files[k])
                      \o ". Supported: " \o Join(allowedExtensions, ", "),
                      "INVALID_FILE_TYPE", 400)
        ELSE NoError

\* the middleware and the checks a request passes before its first await
validateRequest(reg, r) ==
    LET m == multer(r.files)
    IN  IF m # NoError THEN m
        ELSE CASE r.mode = "upload" -> validateUpload(reg, r)
               [] r.mode = "verify" -> validateVerify(r)
               [] OTHER -> validateMulti(reg, r)

\* the catch block of the three upload routes: an AppError is rethrown,
\* anything else is replaced
routeCatch(error, mode) ==
    IF error.app THEN error
    ELSE AppError(CASE mode = "upload" -> "Document processing failed"
                    [] mode = "compare" -> "Document comparison failed"
                    [] OTHER -> "Document registration failed",
                  "PROCESSING_TIMEOUT", 500)


----------------------------------------------------------------------------
(* DatabaseService *)

RECURSIVE CountInserted(_, _)
\* saveLoanOffers, the loop: savedCount++ for each insert that did not throw
CountInserted(n, inserted) ==
    IF n = 0 THEN 0
    ELSE (IF n \in inserted THEN 1 ELSE 0) + CountInserted(n - 1, inserted)

\* saveLoanOffers(offers): open and prepare can throw (outer catch), each
\* stmt.run can throw (inner catch); `inserted` are the offers whose insert
\* succeeds
saveLoanOffers(offers, open, prepare, inserted) ==
    IF open = "fail" \/ prepare = "fail"
    THEN [success |-> FALSE, savedCount |-> 0, error |-> "database error", rows |-> 0]
    ELSE [success |-> TRUE, savedCount |-> CountInserted(Len(offers), inserted),
          error |-> "", rows |-> Cardinality(inserted)]

----------------------------------------------------------------------------
(* The handlers *)

Init ==
    /\ registry = getDefaultDocumentTypes
    /\ req = NoRequest
    /\ pc = "idle"
    /\ i = 0
    /\ savedFileNames = <<>>
    /\ disk = {}
    /\ deleteCalled = {}
    /\ individualOffers = <<>>
    /\ verificationResults = <<>>
    /\ llmCalls = <<>>
    /\ pending = NoPending
    /\ ocr = 0
    /\ db = [constructed |-> FALSE, rows |-> 0]
    /\ resp = NoResponse
    /\ arg = [kind |-> "none"]
    /\ ret = [kind |-> "none"]

\* continue at p
Goto(p) ==
    /\ pc' = p
    /\ UNCHANGED <<i, verificationResults, pending, resp>>

RouteThrow_continue(error) ==
    /\ pending' = NoPending
    /\ UNCHANGED verificationResults
    /\ IF i < Len(req.files)
       THEN pc' = "save" /\ i' = i + 1 /\ UNCHANGED resp
       ELSE /\ resp' = ErrorResponse(routeCatch(error, req.mode))
            /\ pc' = "done"
            /\ UNCHANGED i

\* POST /upload, /upload/compare, /upload/register: an error thrown inside
\* the try block reaches the catch block, which deletes nothing and throws
\* to errorHandler
RouteThrow(error) ==
    /\ resp' = ErrorResponse(routeCatch(error, req.mode))
    /\ pc' = "done"
    /\ pending' = NoPending
    /\ UNCHANGED <<i, verificationResults>>

VerifyPush_some(result) ==
    LET results == Append(verificationResults, result)
    IN  /\ verificationResults' = results
        /\ pending' = NoPending
        /\ IF i < Len(req.files)
           THEN pc' = "vstart" /\ i' = i + 1 /\ UNCHANGED resp
           ELSE /\ resp' = SuccessResponse(
                              [kind |-> "verify",
                               documents |-> results,
                               overallVerified |->
                                   \E k \in 1..Len(results) : results[k].verified])
                /\ pc' = "done"
                /\ UNCHANGED i

VerifyPush_unshift(result) ==
    LET results == <<result>> \o verificationResults
    IN  /\ verificationResults' = results
        /\ pending' = NoPending
        /\ IF i < Len(req.files)
           THEN pc' = "vstart" /\ i' = i + 1 /\ UNCHANGED resp
           ELSE /\ resp' = SuccessResponse(
                              [kind |-> "verify",
                               documents |-> results,
                               overallVerified |->
                                   \A k \in 1..Len(results) : results[k].verified])
                /\ pc' = "done"
                /\ UNCHANGED i

\* POST /verify: a result is pushed, the loop goes on; after the last file
\* the response is sent
VerifyPush(result) ==
    LET results == Append(verificationResults, result)
    IN  /\ verificationResults' = results
        /\ pending' = NoPending
        /\ IF i < Len(req.files)
           THEN pc' = "vstart" /\ i' = i + 1 /\ UNCHANGED resp
           ELSE /\ resp' = SuccessResponse(
                              [kind |-> "verify",
                               documents |-> results,
                               overallVerified |->
                                   \A k \in 1..Len(results) : results[k].verified])
                /\ pc' = "done"
                /\ UNCHANGED i

\* POST /verify, catch
VerifyCatch(error) == VerifyPush(failedResult(req.files[i], req.documentTypes[i], error))

\* verifyDocument: an error thrown inside its try block runs the finally first
VerifyThrowInTry(error) ==
    /\ pending' = [kind |-> "error", error |-> error, result |-> NoResult]
    /\ pc' = "vfinally"
    /\ UNCHANGED <<i, verificationResults, resp>>

Fail_retry(error) ==
    IF pc = "llm"
    THEN pc' = "llm" /\ UNCHANGED <<i, verificationResults, pending, resp>>
    ELSE IF req.mode = "verify" THEN VerifyThrowInTry(error) ELSE RouteThrow(error)

\* an error thrown by a step that follows saveFile
Fail(error) ==
    IF req.mode = "verify" THEN VerifyThrowInTry(error) ELSE RouteThrow(error)

\* a request arrives: multer, then the handler up to its first await.  POST
\* /verify keeps the document types as the array it parsed, whatever the form
\* they arrived in.
Receive ==
    /\ pc = "idle"
    /\ \E r \in Requests :
         LET error == validateRequest(registry, r)
         IN  /\ req' = IF error = NoError /\ r.mode = "verify"
                        THEN [r EXCEPT !.dtForm = "array"]
                        ELSE r
             /\ IF error # NoError
                THEN /\ resp' = ErrorResponse(error)
                     /\ pc' = "done"
                     /\ UNCHANGED i
                ELSE /\ pc' = IF r.mode = "verify" THEN "vstart" ELSE "save"
                     /\ i' = 1
                     /\ UNCHANGED resp
    /\ UNCHANGED <<registry, savedFileNames, disk, deleteCalled, individualOffers,
                   verificationResults, llmCalls, pending, ocr, db, arg, ret>>

\* verifyDocument, up to saveFile: the checklist and the prompt file
VerifyStart ==
    /\ pc = "vstart"
    /\ \E promptExists \in BOOLEAN :
         LET documentType == req.documentTypes[i]
         IN  IF ~getChecklist(documentType).found
             THEN VerifyCatch(PlainError("No checklist found for document type: "
                                         \o documentType))
             ELSE IF ~promptExists
             THEN VerifyCatch(PlainError("No prompt template found for document type: "
                                         \o documentType))
             ELSE Goto("save")
    /\ UNCHANGED <<registry, req, savedFileNames, disk, deleteCalled, individualOffers,
                   llmCalls, ocr, db, arg, ret>>

\* await fileService.saveFile(file, documentType)
SaveFile ==
    /\ pc = "save"
    /\ \E write \in IoOutcomes :
         LET saved == saveFile(req.files[i], write)
         IN  IF saved.ok
             THEN /\ savedFileNames' = Append(savedFileNames, i)
                  /\ disk' = disk \cup {i}
                  /\ Goto("extract")
             ELSE /\ UNCHANGED <<savedFileNames, disk>>
                  /\ IF req.mode = "verify"
                     THEN VerifyCatch(saved.error)
                     ELSE RouteThrow(saved.error)
    /\ UNCHANGED <<registry, req, deleteCalled, individualOffers, llmCalls, ocr, db,
                   arg, ret>>

\* await fileService.extractTextFromFile(fileName), up to the OCR worker
ExtractText ==
    /\ pc = "extract"
    /\ \E read \in IoOutcomes, outcome \in ExtractorOutcomes :
         LET file == req.files[i]
             buffer == readFile(i \in disk, read)
             fileExtension == tempFileExtension(file)
             text == IF fileExtension = ".pdf"
                     THEN extractTextFromPDF(outcome)
                     ELSE extractTextFromDOCX(outcome)
         IN  IF ~buffer.ok THEN Fail(buffer.error)
             ELSE IF fileExtension \in ImageExtensions THEN Goto("ocr_create")
             ELSE IF fileExtension \in {".pdf", ".docx"}
             THEN IF text.ok THEN Goto("llm") ELSE Fail(text.error)
             ELSE Fail(unsupportedFileType(fileExtension))
    /\ UNCHANGED <<registry, req, savedFileNames, disk, deleteCalled, individualOffers,
                   llmCalls, ocr, db, arg, ret>>

\* extractTextFromImage: worker = await createWorker('deu+eng')
OcrCreateWorker ==
    /\ pc = "ocr_create"
    /\ \E created \in IoOutcomes :
         IF created = "ok"
         THEN /\ ocr' = ocr + 1
              /\ Goto("ocr_recognize")
         ELSE /\ UNCHANGED ocr
              /\ Fail(recognizeResult("fail").error)
    /\ UNCHANGED <<registry, req, savedFileNames, disk, deleteCalled, individualOffers,
                   llmCalls, db, arg, ret>>

\* extractTextFromImage: await worker.recognize(fileBuffer), the empty-text
\* check and the catch block; the finally block comes next
OcrRecognize ==
    /\ pc = "ocr_recognize"
    /\ \E outcome \in ExtractorOutcomes :
         LET text == recognizeResult(outcome)
         IN  pending' = [kind |-> IF text.ok THEN "text" ELSE "error",
                         error |-> text.error, result |-> NoResult]
    /\ pc' = "ocr_terminate"
    /\ UNCHANGED <<registry, req, i, savedFileNames, disk, deleteCalled, individualOffers,
                   verificationResults, llmCalls, ocr, db, resp, arg, ret>>

\* extractTextFromImage, finally: await worker.terminate(); then the text is
\* returned or the error thrown
OcrTerminate ==
    /\ pc = "ocr_terminate"
    /\ ocr' = terminateInFinally(ocr, [ok |-> pending.kind = "text"])
    /\ IF pending.kind = "text"
       THEN /\ pc' = "llm"
            /\ pending' = NoPending
            /\ UNCHANGED <<i, verificationResults, resp>>
       ELSE Fail(pending.error)
    /\ UNCHANGED <<registry, req, savedFileNames, disk, deleteCalled, individualOffers,
                   llmCalls, db, arg, ret>>


\* what validateLLMResponse makes of a reply in the upload routes: not a JSON
\* object, an object, an object whose fixzinsperiode is a number
ReplyKinds == {"invalid", "object", "objectNumericFixzinsperiode"}

invalidResponse == AppError("Invalid LLM response: Invalid JSON response",
                            "INVALID_RESPONSE_FORMAT", 500)

\* the LoanOfferData built from a parsed reply
offerData(file) == [fileName |-> originalname(file)]

\* the prompt lookup, await processDocument(...), validateLLMResponse and what
\* the handler does with the parsed reply up to its next await
ProcessDocument ==
    /\ pc = "llm"
    /\ req.mode # "verify"
    /\ \E outcome \in ProviderOutcomes, reply \in ReplyKinds, promptFile \in PromptFiles :
         LET file == req.files[i]
             promptTemplate == getPromptTemplate(registry, req.documentType, promptFile)
             llmResponse == processDocument(outcome)
         IN  IF promptTemplate \in {"null", ""}
             THEN /\ Fail(AppError("Prompt template not found for document type",
                                   "LLM_SERVICE_ERROR", 500))
                  /\ UNCHANGED <<llmCalls, individualOffers>>
             ELSE /\ llmCalls' = Append(llmCalls, i)
                  /\ IF ~llmResponse.ok
                     THEN Fail(llmResponse.error) /\ UNCHANGED individualOffers
                     ELSE IF reply = "invalid"
                     THEN Fail(invalidResponse) /\ UNCHANGED individualOffers
                     ELSE IF req.mode = "upload"
                     THEN /\ pc' = "cleanup"
                          /\ i' = 1
                          /\ UNCHANGED <<individualOffers, verificationResults,
                                         pending, resp>>
                     ELSE IF reply = "objectNumericFixzinsperiode"
                     THEN /\ Fail(PlainError("fixzinsperiode.match is not a function"))
                          /\ UNCHANGED individualOffers
                     ELSE /\ individualOffers' = Append(individualOffers, offerData(file))
                          /\ IF i < Len(req.files)
                             THEN pc' = "save" /\ i' = i + 1
                             ELSE IF req.mode = "compare"
                             THEN pc' = "compare_llm" /\ UNCHANGED i
                             ELSE pc' = "cleanup" /\ i' = 1
                          /\ UNCHANGED <<verificationResults, pending, resp>>
    /\ UNCHANGED <<registry, req, savedFileNames, disk, deleteCalled, ocr, db, arg, ret>>

\* verifyDocument: await processDocument(...), validateLLMResponse, the
\* checklist results; the finally block comes next
VerifyProcessDocument ==
    /\ pc = "llm"
    /\ req.mode = "verify"
    /\ llmCalls' = Append(llmCalls, i)
    /\ \E outcome \in ProviderOutcomes, valid \in BOOLEAN :
         LET file == req.files[i]
             documentType == req.documentTypes[i]
             checklist == getChecklist(documentType)
             llmResponse == processDocument(outcome)
         IN  IF ~llmResponse.ok THEN VerifyThrowInTry(llmResponse.error)
             ELSE IF ~valid
             THEN VerifyThrowInTry(
                      PlainError("Invalid LLM response: Invalid JSON response"))
             ELSE \E parsedData \in ParsedReplies(checklist) :
                    /\ pending' = [kind |-> "result", error |-> NoError,
                                   result |-> buildVerificationResult(
                                                  file, documentType, checklist, parsedData)]
                    /\ pc' = "vfinally"
                    /\ UNCHANGED <<i, verificationResults, resp>>
    /\ UNCHANGED <<registry, req, savedFileNames, disk, deleteCalled, individualOffers,
                   ocr, db, arg, ret>>

\* POST /upload/compare: the comparison prompt, the comparison model call and
\* the validation of its reply
CompareDocuments ==
    /\ pc = "compare_llm"
    /\ \E promptRead \in IoOutcomes, outcome \in ProviderOutcomes, valid \in BOOLEAN :
         LET comparisonResponse == processDocument(outcome)
         IN  IF promptRead = "fail"
             THEN /\ RouteThrow(AppError("Comparison prompt template not found",
                                         "LLM_SERVICE_ERROR", 500))
                  /\ UNCHANGED llmCalls
             ELSE /\ llmCalls' = Append(llmCalls, 0)
                  /\ IF ~comparisonResponse.ok THEN RouteThrow(comparisonResponse.error)
                     ELSE IF ~valid
                     THEN RouteThrow(AppError(
                              "Invalid comparison response: Invalid JSON response",
                              "INVALID_RESPONSE_FORMAT", 500))
                     ELSE /\ pc' = "cleanup"
                          /\ i' = 1
                          /\ UNCHANGED <<verificationResults, pending, resp>>
    /\ UNCHANGED <<registry, req, savedFileNames, disk, deleteCalled, individualOffers,
                   ocr, db, arg, ret>>

\* deleteFile(fileName): fs.existsSync, then unlink, which can throw
deleteFile(files, fileName, unlink) ==
    IF unlink = "ok" THEN files \ {fileName} ELSE files

Cleanup_throws ==
    /\ pc = "cleanup"
    /\ \E unlink \in IoOutcomes :
         /\ disk' = deleteFile(disk, savedFileNames[i], unlink)
         /\ deleteCalled' = deleteCalled \cup {savedFileNames[i]}
         /\ IF unlink = "fail"
            THEN /\ resp' = ErrorResponse(AppError("Failed to delete file",
                                                   "NETWORK_ERROR", 500))
                 /\ pc' = "done"
                 /\ UNCHANGED i
            ELSE IF i < Len(savedFileNames)
            THEN i' = i + 1 /\ UNCHANGED <<pc, resp>>
            ELSE /\ UNCHANGED i
                 /\ CASE req.mode = "upload" ->
                           /\ resp' = SuccessResponse([kind |-> "upload",
                                                       documentType |-> req.documentType])
                           /\ pc' = "done"
                      [] req.mode = "compare" ->
                           /\ resp' = SuccessResponse([kind |-> "compare",
                                                       individualOffers |-> individualOffers,
                                                       comparison |-> "parsedData"])
                           /\ pc' = "done"
                      [] OTHER -> pc' = "db" /\ UNCHANGED resp
    /\ UNCHANGED <<registry, req, savedFileNames, individualOffers, verificationResults,
                   llmCalls, pending, ocr, db, arg, ret>>

\* the cleanup loop of the success path: try { await deleteFile(fileName) }
\* catch { warn }; after the last file the response is sent, or the offers go
\* to the database
Cleanup ==
    /\ pc = "cleanup"
    /\ \E unlink \in IoOutcomes :
         /\ disk' = deleteFile(disk, savedFileNames[i], unlink)
         /\ deleteCalled' = deleteCalled \cup {savedFileNames[i]}
    /\ IF i < Len(savedFileNames)
       THEN i' = i + 1 /\ UNCHANGED <<pc, resp>>
       ELSE /\ UNCHANGED i
            /\ CASE req.mode = "upload" ->
                      /\ resp' = SuccessResponse([kind |-> "upload",
                                                  documentType |-> req.documentType])
                      /\ pc' = "done"
                 [] req.mode = "compare" ->
                      /\ resp' = SuccessResponse([kind |-> "compare",
                                                  individualOffers |-> individualOffers,
                                                  comparison |-> "parsedData"])
                      /\ pc' = "done"
                 [] OTHER -> pc' = "db" /\ UNCHANGED resp
    /\ UNCHANGED <<registry, req, savedFileNames, individualOffers, verificationResults,
                   llmCalls, pending, ocr, db, arg, ret>>

\* verifyDocument, finally: try { await deleteFile(fileName) } catch { warn };
\* then the result is returned to the route, or the error reaches its catch
VerifyFinally ==
    /\ pc = "vfinally"
    /\ \E unlink \in IoOutcomes :
         /\ disk' = deleteFile(disk, Last(savedFileNames), unlink)
         /\ deleteCalled' = deleteCalled \cup {Last(savedFileNames)}
    /\ IF pending.kind = "result"
       THEN VerifyPush(pending.result)
       ELSE VerifyCatch(pending.error)
    /\ UNCHANGED <<registry, req, savedFileNames, individualOffers, llmCalls, ocr, db,
                   arg, ret>>

\* POST /upload/register: databaseService.getInstance().saveLoanOffers(dbRecords)
\* and the response.  getInstance constructs the service on first use; the
\* constructor throws when the database cannot be initialised.
SaveLoanOffers ==
    /\ pc = "db"
    /\ \E construct \in IoOutcomes, open \in IoOutcomes, prepare \in IoOutcomes,
          inserted \in SUBSET (1..Len(individualOffers)) :
         IF ~db.constructed /\ construct = "fail"
         THEN /\ RouteThrow(AppError("Database initialization failed",
                                     "NETWORK_ERROR", 500))
              /\ UNCHANGED db
         ELSE LET dbResult == saveLoanOffers(individualOffers, open, prepare, inserted)
              IN  /\ db' = [constructed |-> TRUE, rows |-> db.rows + dbResult.rows]
                  /\ resp' = SuccessResponse(
                                 [kind |-> "register",
                                  individualOffers |-> individualOffers,
                                  databaseSave |-> [success |-> dbResult.success,
                                                    savedCount |-> dbResult.savedCount,
                                                    error |-> dbResult.error]])
                  /\ pc' = "done"
                  /\ UNCHANGED <<i, verificationResults, pending>>
    /\ UNCHANGED <<registry, req, savedFileNames, disk, deleteCalled, individualOffers,
                   llmCalls, ocr, arg, ret>>

Next ==
    \/ Receive
    \/ VerifyStart
    \/ SaveFile
    \/ ExtractText
    \/ OcrCreateWorker
    \/ OcrRecognize
    \/ OcrTerminate
    \/ ProcessDocument
    \/ VerifyProcessDocument
    \/ CompareDocuments
    \/ Cleanup
    \/ VerifyFinally
    \/ SaveLoanOffers

Spec == Init /\ [][Next]_vars

----------------------------------------------------------------------------
(* Single calls: validateFileForDocumentType and verifyDocument's result *)

\* sizes at and next to the smallest limit of the registry
ValidateFileSizes == FileSizes \cup {2 * MB, 2 * MB + 1}

\* validateFileForDocumentType(file, documentTypeId)
ValidateCalls ==
    [kind : {"validateFileForDocumentType"},
     file : [name : FileNames, size : ValidateFileSizes],
     documentTypeId : DocumentTypeIds]

\* verifyDocument(file, documentType) together with the reply it parses
VerifyCalls ==
    UNION { [kind : {"verifyDocument"}, file : VerifyFiles, documentType : {t},
             parsedData : ParsedReplies(getChecklist(t))]
            : t \in getSupportedDocumentTypes }

\* characters of an extracted text: blank, line break, a letter
TextChars == {" ", "\n", "a"}

Whitespace == {" ", "\n"}

RECURSIVE trimStart(_)
\* the text without its leading whitespace
trimStart(text) ==
    IF Len(text) > 0 /\ text[1] \in Whitespace THEN trimStart(Tail(text)) ELSE text

RECURSIVE trimEnd(_)
\* the text without its trailing whitespace
trimEnd(text) ==
    IF Len(text) > 0 /\ text[Len(text)] \in Whitespace
    THEN trimEnd(SubSeq(text, 1, Len(text) - 1))
    ELSE text

\* String.prototype.trim
trim(text) == trimEnd(trimStart(text))

\* what pdf-parse, recognize or mammoth hands back: a text (a sequence of
\* characters), no text field at all, or an exception
RawTexts ==
    [kind : {"text"}, chars : SeqsOf(TextChars, 0, MaxTextLen)]
    \cup {[kind |-> "undefined", chars |-> <<>>], [kind |-> "throws", chars |-> <<>>]}

extractorOutcome_noTrim(raw) ==
    CASE raw.kind = "throws" -> "fail"
      [] raw.kind = "undefined" \/ Len(raw.chars) = 0 -> "empty"
      [] OTHER -> "text"

\* the branch an extractor takes: the library throws, or
\* !text || text.trim().length === 0, or there is text
extractorOutcome(raw) ==
    CASE raw.kind = "throws" -> "fail"
      [] raw.kind = "undefined" \/ Len(trim(raw.chars)) = 0 -> "empty"
      [] OTHER -> "text"

\* extractTextFromFile(fileName) for the temp file of `file`: readFile, the
\* dispatch on the extension, the extractor and its trimmed text
extractTextFromFile(file, read, raw) ==
    LET fileBuffer == readFile(TRUE, read)
        fileExtension == tempFileExtension(file)
        outcome == extractorOutcome(raw)
        extracted == CASE fileExtension = ".pdf" -> extractTextFromPDF(outcome)
                       [] fileExtension \in ImageExtensions -> recognizeResult(outcome)
                       [] fileExtension = ".docx" -> extractTextFromDOCX(outcome)
                       [] OTHER -> [ok |-> FALSE,
                                    error |-> unsupportedFileType(fileExtension)]
    IN  IF ~fileBuffer.ok THEN [ok |-> FALSE, error |-> fileBuffer.error, text |-> <<>>]
        ELSE [ok |-> extracted.ok, error |-> extracted.error,
              text |-> IF extracted.ok THEN trim(raw.chars) ELSE <<>>]

\* names of the temp files handed to extractTextFromFile
ExtractFileNames ==
    FileNames \cup {<<"scan", "jpg">>, <<"scan", "jpeg">>, <<"cv", "docx">>}

\* extractTextFromFile(fileName) with what the file system and the extractor
\* answer
ExtractCalls ==
    [kind : {"extractTextFromFile"},
     file : [name : ExtractFileNames, size : {3 * MB}],
     read : IoOutcomes,
     raw : RawTexts]

\* Math.min, Math.max
Min(a, b) == IF a < b THEN a ELSE b

Max(a, b) == IF a > b THEN a ELSE b

\* calculateConfidence: the `required` list of each branch, <<>> for a
\* document type without branch
requiredFields(documentType) ==
    CASE documentType = "kaufvertrag" -> <<"buyer", "seller", "object", "price">>
      [] documentType = "invoice" ->
            <<"vendorName", "invoiceNumber", "invoiceDate", "totalAmount">>
      [] documentType = "receipt" -> <<"merchantName", "transactionDate", "totalAmount">>
      [] documentType = "business_card" -> <<"name">>
      [] documentType = "resume" -> <<"personalInfo">>
      [] OTHER -> <<>>

\* calculateConfidence: the keys that never count as optional fields
nonOptionalKeys ==
    {"buyer", "seller", "object", "price", "vendorName", "invoiceNumber", "invoiceDate",
     "totalAmount", "merchantName", "transactionDate", "name", "personalInfo"}

\* keys of the parsed records drawn here
RecordKeys ==
    {"vendorName", "invoiceNumber", "invoiceDate", "totalAmount", "merchantName", "name",
     "notes", "currency"}

\* a key of a record is absent, holds null, or holds a value
FieldStates == {"absent", "null", "value"}

ExtractedRecords == [RecordKeys -> FieldStates]

\* extractedData[field]
fieldOf(extractedData, field) ==
    IF field \in DOMAIN extractedData THEN extractedData[field] ELSE "absent"

\* Object.keys(extractedData)
keysOf(extractedData) == {k \in DOMAIN extractedData : extractedData[k] # "absent"}

\* a number as the quotient num / den; 0 / 0 is NaN
Quotient(num, den) == [isNaN |-> den = 0 /\ num = 0, num |-> num, den |-> den]

calculateConfidence_countsNull(extractedData, documentType) ==
    LET required == requiredFields(documentType)
        totalFields == Len(required)
        score == Cardinality({k \in 1..Len(required) :
                                 fieldOf(extractedData, required[k]) = "null"})
        optionalFields == keysOf(extractedData) \ nonOptionalKeys
        twice == 2 * score + Min(Cardinality(optionalFields), totalFields)
    IN  IF totalFields = 0 THEN Quotient(0, 0)
        ELSE Quotient(Min(Max(twice, 0), 2 * totalFields), 2 * totalFields)

\* calculateConfidence(extractedData, documentType): score and the bonus are
\* kept doubled (the bonus is 0.5 per optional field), so the result is
\* Math.min(Math.max(score / totalFields, 0), 1) = num / (2 * totalFields);
\* without required fields it is 0 / 0
calculateConfidence(extractedData, documentType) ==
    LET required == requiredFields(documentType)
        totalFields == Len(required)
        score == Cardinality({k \in 1..Len(required) :
                                 fieldOf(extractedData, required[k]) = "value"})
        optionalFields == keysOf(extractedData) \ nonOptionalKeys
        twice == 2 * score + Min(Cardinality(optionalFields), totalFields)
    IN  IF totalFields = 0 THEN Quotient(0, 0)
        ELSE Quotient(Min(Max(twice, 0), 2 * totalFields), 2 * totalFields)

\* calculateConfidence(validation.parsedData, documentType)
ConfidenceCalls ==
    [kind : {"calculateConfidence"}, extractedData : ExtractedRecords,
     documentType : DocumentTypeIds]

\* A model reply is a sequence of tokens: "{" "}" "[" "]", "k:" (a key and
\* its colon), the scalars "1" "s" "null" "true" (a number, a string, null, a
\* boolean), "w" (a word of prose), "fence" and "fence:json" (three backticks,
\* three backticks followed by json), and whitespace.
JsonScalars == {"1", "s", "null", "true"}

\* the result of a parse that failed
ParseFailed == <<"#">>

RECURSIVE afterValue(_)
\* the tokens that follow the JSON value at the head of t, ParseFailed when
\* there is no value there
afterValue(t) ==
    IF Len(t) = 0 THEN ParseFailed
    ELSE IF t[1] \in JsonScalars THEN Tail(t)
    ELSE IF t[1] = "[" /\ Len(t) >= 2
    THEN IF t[2] = "]" THEN SubSeq(t, 3, Len(t))
         ELSE LET r == afterValue(Tail(t))
              IN  IF r # ParseFailed /\ Len(r) > 0 /\ r[1] = "]" THEN Tail(r)
                  ELSE ParseFailed
    ELSE IF t[1] = "{" /\ Len(t) >= 2
    THEN IF t[2] = "}" THEN SubSeq(t, 3, Len(t))
         ELSE IF t[2] = "k:"
         THEN LET r == afterValue(SubSeq(t, 3, Len(t)))
              IN  IF r # ParseFailed /\ Len(r) > 0 /\ r[1] = "}" THEN Tail(r)
                  ELSE ParseFailed
         ELSE ParseFailed
    ELSE ParseFailed

NotWhitespace(c) == c \notin Whitespace

\* typeof of a parsed value, "null" for null
typeOf(token) ==
    CASE token \in {"{", "["} -> "object"
      [] token = "1" -> "number"
      [] token = "s" -> "string"
      [] token = "true" -> "boolean"
      [] OTHER -> "null"

\* JSON.parse(text): the value, given by its text without whitespace, or a
\* SyntaxError
JSONparse(text) ==
    LET t == SelectSeq(text, NotWhitespace)
    IN  IF afterValue(t) = <<>>
        THEN [ok |-> TRUE, type |-> typeOf(t[1]), isArray |-> t[1] = "[", text |-> t]
        ELSE [ok |-> FALSE, type |-> "none", isArray |-> FALSE, text |-> <<>>]

\* text.replace(/^<fence>\s*/i, '')
stripStart(text, fence) ==
    IF Len(text) > 0 /\ text[1] = fence THEN trimStart(Tail(text)) ELSE text

\* text.replace(/\s*```$/i, '')
stripEnd(text) ==
    IF Len(text) > 0 /\ text[Len(text)] = "fence"
    THEN trimEnd(SubSeq(text, 1, Len(text) - 1))
    ELSE text

\* text.indexOf(c), counted from 1; 0 when c does not occur
indexOf(text, c) ==
    IF \E k \in 1..Len(text) : text[k] = c
    THEN CHOOSE k \in 1..Len(text) : text[k] = c /\ \A j \in 1..(k - 1) : text[j] # c
    ELSE 0

\* text.lastIndexOf(c), counted from 1; 0 when c does not occur
lastIndexOf(text, c) ==
    IF \E k \in 1..Len(text) : text[k] = c
    THEN CHOOSE k \in 1..Len(text) :
            text[k] = c /\ \A j \in (k + 1)..Len(text) : text[j] # c
    ELSE 0

NoParsedData == [type |-> "none", isArray |-> FALSE, text |-> <<>>]

\* validateLLMResponse(response)
validateLLMResponse(response) ==
    LET cleaned == trim(stripEnd(stripStart(stripStart(trim(response), "fence:json"), "fence")))
        jsonStart == indexOf(cleaned, "{")
        jsonEnd == lastIndexOf(cleaned, "}")
        sliced == IF jsonStart # 0 /\ jsonEnd # 0 /\ jsonEnd > jsonStart
                  THEN SubSeq(cleaned, jsonStart, jsonEnd)
                  ELSE cleaned
        parsed == JSONparse(sliced)
    IN  IF ~parsed.ok
        THEN [isValid |-> FALSE, parsedData |-> NoParsedData,
              error |-> "Invalid JSON response"]
        ELSE IF parsed.type # "object"
        THEN [isValid |-> FALSE, parsedData |-> NoParsedData,
              error |-> "Response is not a valid JSON object"]
        ELSE [isValid |-> TRUE,
              parsedData |-> [type |-> parsed.type, isArray |-> parsed.isArray,
                              text |-> parsed.text],
              error |-> ""]

\* serialized JSON objects, arrays and scalars, and texts that are not JSON
JsonObjects ==
    {<<"{", "}">>, <<"{", "k:", "1", "}">>, <<"{", " ", "k:", " ", "s", "\n", "}">>,
     <<"{", "k:", "{", "}", "}">>, <<"{", "k:", "{", "k:", "null", "}", "}">>,
     <<"{", "k:", "[", "1", "]", "}">>}

JsonArrays == {<<"[", "]">>, <<"[", "1", "]">>, <<"[", "{", "k:", "1", "}", "]">>}

JsonScalarTexts == {<<c>> : c \in JsonScalars}

NotJson == {<<>>, <<"w">>, <<"{", "k:">>, <<"{", "k:", "1">>, <<"k:", "1", "}">>}

\* what surrounds the JSON text of a reply
Prose == {<<>>, <<"w", " ", "w">>, <<"w", "}", "w">>, <<"w", "{", "w">>}

FenceOpenings == {<<>>, <<"fence", "\n">>, <<"fence:json", "\n">>}

FenceClosings == {<<>>, <<"\n", "fence">>}

\* validateLLMResponse(llmResponse.data); the parts of the reply are kept
\* with the call
ValidateResponseCalls ==
    [kind : {"validateLLMResponse"}, before : Prose, open : FenceOpenings,
     body : JsonObjects \cup JsonArrays \cup JsonScalarTexts \cup NotJson,
     close : FenceClosings, after : Prose]

\* the text of the reply of a call
responseOf(call) ==
    call.before \o (IF call.before = <<>> THEN <<>> ELSE <<"\n">>) \o call.open
    \o call.body \o call.close
    \o (IF call.after = <<>> THEN <<>> ELSE <<" ">>) \o call.after

\* A prompt template and a document text are sequences of tokens: "T" is a
\* word of a template, "d" and "e" are words of documents ("d" occurs in
\* templates as well), "$&" is the replacement pattern of String.replace that
\* stands for the matched text.
TemplateTokens == {"T", "d", "{DOCUMENT_TEXT}", "{DOCUMENT_CONTENT}"}

DocumentTokens == {"d", "e", "$&"}

\* text.includes(part)
includes(text, part) ==
    \E k \in 1..(Len(text) - Len(part) + 1) : SubSeq(text, k, k + Len(part) - 1) = part

\* text.replace(pattern, replacement): the first occurrence of the pattern is
\* replaced, "$&" in the replacement inserts the pattern
replace(text, pattern, replacement) ==
    LET at == indexOf(text, pattern)
        inserted == [k \in 1..Len(replacement) |->
                        IF replacement[k] = "$&" THEN pattern ELSE replacement[k]]
    IN  IF at = 0 THEN text
        ELSE SubSeq(text, 1, at - 1) \o inserted \o SubSeq(text, at + 1, Len(text))

documentContentSection == <<"\n\nDocument Content:\n">>

\* buildPrompt(promptTemplate, documentText)
buildPrompt(promptTemplate, documentText) ==
    LET prompt == replace(replace(promptTemplate, "{DOCUMENT_TEXT}", documentText),
                          "{DOCUMENT_CONTENT}", documentText)
    IN  IF ~includes(prompt, documentText)
        THEN prompt \o documentContentSection \o documentText
        ELSE prompt

\* buildPrompt(promptTemplate, documentText): a template and a text that is
\* not empty
BuildPromptCalls ==
    [kind : {"buildPrompt"}, promptTemplate : SeqsOf(TemplateTokens, 1, MaxTemplateLen),
     documentText : SeqsOf(DocumentTokens, 1, MaxTextLen)]

\* processDocument(documentText, promptTemplate, documentType) with what the
\* provider answers
ProcessDocumentCalls == [kind : {"processDocument"}, outcome : ProviderOutcomes]

\* getPromptTemplate(documentTypeId) with what the prompts directory holds
PromptTemplateCalls == [kind : {"getPromptTemplate"}, documentTypeId : DocumentTypeIds,
                        promptFile : PromptFiles]

\* what the constructors find at the path of their configuration file: no
\* file, a file readFileSync throws on, text that is not JSON, or the JSON
\* the file is meant to hold
ConfigFiles == {"missing", "unreadable", "malformed", "valid"}

\* the states of the file in which the configuration cannot be loaded
LoadFailures == {"missing", "unreadable", "malformed"}

\* config.documentTypes of a documentTypes.json that was written by
\* saveDocumentTypes
configDocumentTypes == getDefaultDocumentTypes

\* DocumentTypeService.loadDocumentTypes: without a file the defaults are
\* set and saved, and if the save throws the catch block sets them again;
\* a file that cannot be read or parsed ends in the catch block too
loadDocumentTypes(config) ==
    IF config = "valid"
    THEN [threw |-> FALSE, documentTypes |-> configDocumentTypes]
    ELSE [threw |-> FALSE, documentTypes |-> getDefaultDocumentTypes]

\* the field initialiser: private checklists = {}
NoChecklists == [t \in {} |-> [items |-> <<>>]]

\* VerificationService.loadChecklists: when the file is missing or cannot be
\* read or parsed the error is logged and this.checklists stays as it is
loadChecklists(config) ==
    IF config = "valid"
    THEN [threw |-> FALSE, checklists |-> checklists]
    ELSE [threw |-> FALSE, checklists |-> NoChecklists]

\* new DocumentTypeService() and new VerificationService()
LoadCalls == [kind : {"loadDocumentTypes", "loadChecklists"}, config : ConfigFiles]

\* ---- calculateYearsBetweenDates and calculateFixzinssatzInJahren ----
\*
\* The strings of the two fields are represented by what they hold: a
\* calendar date written in one of three formats, a tenor in years with the
\* text around its digits, or one of the plain strings ("" stands for an
\* absent field).  Dates are counted in days; the hour a change of daylight
\* saving time adds to or takes from a difference is left out.

DateFormats == {"DD.MM.YYYY", "YYYY-MM-DD", "DD/MM/YYYY"}

DateYears == {2020, 2027, 2075}

\* day and month of the dates drawn
DateDays == { <<1, 1>>, <<31, 12>> }

DateStrings ==
    { [kind |-> "date", format |-> f, day |-> dm[1], month |-> dm[2], year |-> y]
        : f \in DateFormats, dm \in DateDays, y \in DateYears }

\* texts the pattern /(\d+)\s*Jahre?/i matches: prefix, digits, suffix
YearsStrings ==
    [kind : {"years"}, prefix : {"", "ca. "}, digits : {"10", "99"},
     suffix : {" Jahre", "Jahre", " Jahr", " JAHREN"}]

PlainStrings == [kind : {"plain"}, text : {"", "nicht angegeben", "unbekannt"}]

\* the text of a tenor string
textOf(s) == s.prefix \o s.digits \o s.suffix

\* !dateStr || dateStr === 'nicht angegeben'
notGiven(s) == s.kind = "plain" /\ s.text \in {"", "nicht angegeben"}

\* dateStr.match(format) of the first format that matches: the three
\* captured groups in the order of the text
matchGroups(s) ==
    IF s.format = "YYYY-MM-DD"
    THEN <<s.year, s.month, s.day>>
    ELSE <<s.day, s.month, s.year>>

\* days from 1970-01-01 to the first day of month `month` (1..12) of `year`,
\* plus day - 1, in the proleptic Gregorian calendar
daysFromCivil(year, month, day) ==
    LET y == IF month <= 2 THEN year - 1 ELSE year
        era == y \div 400
        yoe == y - era * 400
        mp == (month + 9) % 12
        doy == ((153 * mp + 2) \div 5) + day - 1
        doe == yoe * 365 + (yoe \div 4) - (yoe \div 100) + doy
    IN  era * 146097 + doe - 719468

\* new Date(year, monthIndex, day): a year of 0..99 means 1900 + year, a
\* month index or a day out of range carries over
newDate(year, monthIndex, day) ==
    LET fullYear == IF year \in 0..99 THEN 1900 + year ELSE year
    IN  daysFromCivil(fullYear + (monthIndex \div 12), (monthIndex % 12) + 1, day)

\* parseDate: const [, day, month, year] = match for each of the formats;
\* the strings drawn here that reach the direct parse are no dates
parseDate(s) ==
    IF notGiven(s) THEN [valid |-> FALSE, days |-> 0]
    ELSE IF s.kind = "date"
    THEN LET match == matchGroups(s)
             day == match[1]
             month == match[2]
             year == match[3]
         IN  [valid |-> TRUE, days |-> newDate(year, month - 1, day)]
    ELSE [valid |-> FALSE, days |-> 0]

\* Math.round(diffTime / (1000 * 60 * 60 * 24 * 365.25)) for a difference of
\* diffDays days: 4 * diffDays / 1461, rounded half up
roundYears(diffDays) == (8 * diffDays + 1461) \div 2922

\* calculateYearsBetweenDates; "null" stands for null
calculateYearsBetweenDates(startDate, endDate) ==
    LET start == parseDate(startDate)
        end == parseDate(endDate)
        years == roundYears(end.days - start.days)
    IN  IF ~start.valid \/ ~end.valid THEN "null"
        ELSE IF years >= 0 /\ years <= 50 THEN ToString(years) \o " Jahre"
        ELSE "null"

calculateFixzinssatzInJahren_noYearsFormat(angebotsdatum, fixzinsperiode) ==
    IF notGiven(fixzinsperiode) THEN "null"
    ELSE IF ~notGiven(angebotsdatum)
    THEN calculateYearsBetweenDates(angebotsdatum, fixzinsperiode)
    ELSE "null"

\* calculateFixzinssatzInJahren
calculateFixzinssatzInJahren(angebotsdatum, fixzinsperiode) ==
    IF notGiven(fixzinsperiode) THEN "null"
    ELSE IF fixzinsperiode.kind = "years" THEN fixzinsperiode.digits \o " Jahre"
    ELSE IF ~notGiven(angebotsdatum)
    THEN calculateYearsBetweenDates(angebotsdatum, fixzinsperiode)
    ELSE "null"

\* offerData.fixzinssatz_in_jahren: calculateFixzinssatzInJahren(...) || 'nicht angegeben'
fixzinssatz_in_jahren(angebotsdatum, fixzinsperiode) ==
    LET years == calculateFixzinssatzInJahren(angebotsdatum, fixzinsperiode)
    IN  IF years = "null" THEN "nicht angegeben" ELSE years

YearsBetweenCalls ==
    [kind : {"calculateYearsBetweenDates"},
     startDate : DateStrings \cup PlainStrings,
     endDate : DateStrings \cup PlainStrings]

FixzinssatzCalls ==
    [kind : {"calculateFixzinssatzInJahren"},
     angebotsdatum : DateStrings \cup PlainStrings,
     fixzinsperiode : DateStrings \cup YearsStrings \cup PlainStrings]

InitCalls ==
    /\ registry = getDefaultDocumentTypes
    /\ req = NoRequest
    /\ pc = "idle"
    /\ i = 0
    /\ savedFileNames = <<>>
    /\ disk = {}
    /\ deleteCalled = {}
    /\ individualOffers = <<>>
    /\ verificationResults = <<>>
    /\ llmCalls = <<>>
    /\ pending = NoPending
    /\ ocr = 0
    /\ db = [constructed |-> FALSE, rows |-> 0]
    /\ resp = NoResponse
    /\ arg \in ValidateCalls \cup VerifyCalls \cup ExtractCalls \cup ConfidenceCalls
                \cup ValidateResponseCalls \cup BuildPromptCalls
                \cup ProcessDocumentCalls \cup PromptTemplateCalls \cup LoadCalls
                \cup YearsBetweenCalls \cup FixzinssatzCalls
    /\ ret = [kind |-> "none"]

ValidateFile ==
    /\ arg.kind = "validateFileForDocumentType"
    /\ ret.kind = "none"
    /\ LET validation == validateFileForDocumentType(registry, arg.file, arg.documentTypeId)
       IN  ret' = [kind |-> "validation", isValid |-> validation.isValid,
                   error |-> validation.error]
    /\ UNCHANGED <<registry, req, pc, i, savedFileNames, disk, deleteCalled,
                   individualOffers, verificationResults, llmCalls, pending, ocr, db,
                   resp, arg>>

VerifyDocument ==
    /\ arg.kind = "verifyDocument"
    /\ ret.kind = "none"
    /\ ret' = [kind |-> "verificationResult",
               result |-> buildVerificationResult(arg.file, arg.documentType,
                                                  getChecklist(arg.documentType),
                                                  arg.parsedData)]
    /\ UNCHANGED <<registry, req, pc, i, savedFileNames, disk, deleteCalled,
                   individualOffers, verificationResults, llmCalls, pending, ocr, db,
                   resp, arg>>

ExtractTextFromFile ==
    /\ arg.kind = "extractTextFromFile"
    /\ ret.kind = "none"
    /\ LET extracted == extractTextFromFile(arg.file, arg.read, arg.raw)
       IN  ret' = [kind |-> "extraction", ok |-> extracted.ok,
                   error |-> extracted.error, text |-> extracted.text]
    /\ UNCHANGED <<registry, req, pc, i, savedFileNames, disk, deleteCalled,
                   individualOffers, verificationResults, llmCalls, pending, ocr, db,
                   resp, arg>>

CalculateConfidence ==
    /\ arg.kind = "calculateConfidence"
    /\ ret.kind = "none"
    /\ ret' = [kind |-> "confidence",
               value |-> calculateConfidence(arg.extractedData, arg.documentType)]
    /\ UNCHANGED <<registry, req, pc, i, savedFileNames, disk, deleteCalled,
                   individualOffers, verificationResults, llmCalls, pending, ocr, db,
                   resp, arg>>

ValidateLLMResponse ==
    /\ arg.kind = "validateLLMResponse"
    /\ ret.kind = "none"
    /\ LET validation == validateLLMResponse(responseOf(arg))
       IN  ret' = [kind |-> "llmValidation", isValid |-> validation.isValid,
                   parsedData |-> validation.parsedData, error |-> validation.error]
    /\ UNCHANGED <<registry, req, pc, i, savedFileNames, disk, deleteCalled,
                   individualOffers, verificationResults, llmCalls, pending, ocr, db,
                   resp, arg>>

BuildPrompt ==
    /\ arg.kind = "buildPrompt"
    /\ ret.kind = "none"
    /\ ret' = [kind |-> "prompt", prompt |-> buildPrompt(arg.promptTemplate, arg.documentText)]
    /\ UNCHANGED <<registry, req, pc, i, savedFileNames, disk, deleteCalled,
                   individualOffers, verificationResults, llmCalls, pending, ocr, db,
                   resp, arg>>

ProcessDocumentCall ==
    /\ arg.kind = "processDocument"
    /\ ret.kind = "none"
    /\ LET llmResponse == processDocument(arg.outcome)
       IN  ret' = [kind |-> "llmResponse", ok |-> llmResponse.ok,
                   error |-> llmResponse.error]
    /\ UNCHANGED <<registry, req, pc, i, savedFileNames, disk, deleteCalled,
                   individualOffers, verificationResults, llmCalls, pending, ocr, db,
                   resp, arg>>

GetPromptTemplate ==
    /\ arg.kind = "getPromptTemplate"
    /\ ret.kind = "none"
    /\ ret' = [kind |-> "promptTemplate",
               template |-> getPromptTemplate(registry, arg.documentTypeId,
                                              arg.promptFile)]
    /\ UNCHANGED <<registry, req, pc, i, savedFileNames, disk, deleteCalled,
                   individualOffers, verificationResults, llmCalls, pending, ocr, db,
                   resp, arg>>

\* new DocumentTypeService()
LoadDocumentTypes ==
    /\ arg.kind = "loadDocumentTypes"
    /\ ret.kind = "none"
    /\ LET loaded == loadDocumentTypes(arg.config)
       IN  ret' = [kind |-> "documentTypes", threw |-> loaded.threw,
                   documentTypes |-> loaded.documentTypes]
    /\ UNCHANGED <<registry, req, pc, i, savedFileNames, disk, deleteCalled,
                   individualOffers, verificationResults, llmCalls, pending, ocr, db,
                   resp, arg>>

\* new VerificationService()
LoadChecklists ==
    /\ arg.kind = "loadChecklists"
    /\ ret.kind = "none"
    /\ LET loaded == loadChecklists(arg.config)
       IN  ret' = [kind |-> "checklists", threw |-> loaded.threw,
                   supported |-> DOMAIN loaded.checklists]
    /\ UNCHANGED <<registry, req, pc, i, savedFileNames, disk, deleteCalled,
                   individualOffers, verificationResults, llmCalls, pending, ocr, db,
                   resp, arg>>

CalculateYearsBetweenDates ==
    /\ arg.kind = "calculateYearsBetweenDates"
    /\ ret.kind = "none"
    /\ ret' = [kind |-> "years",
               value |-> calculateYearsBetweenDates(arg.startDate, arg.endDate)]
    /\ UNCHANGED <<registry, req, pc, i, savedFileNames, disk, deleteCalled,
                   individualOffers, verificationResults, llmCalls, pending, ocr, db,
                   resp, arg>>

\* calculateFixzinssatzInJahren and the field the route builds from it
CalculateFixzinssatzInJahren ==
    /\ arg.kind = "calculateFixzinssatzInJahren"
    /\ ret.kind = "none"
    /\ ret' = [kind |-> "fixzinssatz",
               value |-> calculateFixzinssatzInJahren(arg.angebotsdatum,
                                                      arg.fixzinsperiode),
               field |-> fixzinssatz_in_jahren(arg.angebotsdatum, arg.fixzinsperiode)]
    /\ UNCHANGED <<registry, req, pc, i, savedFileNames, disk, deleteCalled,
                   individualOffers, verificationResults, llmCalls, pending, ocr, db,
                   resp, arg>>

NextCalls ==
    \/ ValidateFile
    \/ VerifyDocument
    \/ ExtractTextFromFile
    \/ CalculateConfidence
    \/ ValidateLLMResponse
    \/ BuildPrompt
    \/ ProcessDocumentCall
    \/ GetPromptTemplate
    \/ LoadDocumentTypes
    \/ LoadChecklists
    \/ CalculateYearsBetweenDates
    \/ CalculateFixzinssatzInJahren

SpecCalls == InitCalls /\ [][NextCalls]_vars

----------------------------------------------------------------------------
(* The administrative routes: POST, PUT and DELETE /document-types           *)
(*                                                                         *)
(* The handlers are synchronous: each runs between two awaits of whatever    *)
(* request is in flight.  Here arg is the administrative request and ret     *)
(* its response.                                                             *)

\* what fs.writeFileSync in saveDocumentTypes can answer
SaveOutcomes == {"ok", "fail"}

\* ids an administrative request names: a registered one, a new one, none
AdminIds == {"invoice", "custom", ""}

\* req.body of PUT /document-types/:id, a Partial<DocumentType>
AdminUpdates == { [maxFileSize |-> 2 * MB],
                  [supportedFormats |-> <<"docx">>],
                  [id |-> "receipt"] }

AdminRequests ==
    [kind : {"admin"}, op : {"add", "delete"}, id : AdminIds, updates : {[id |-> ""]}]
    \cup [kind : {"admin"}, op : {"update"}, id : AdminIds \ {""}, updates : AdminUpdates]

\* the document type POST /document-types builds from req.body
newDocumentType(id) ==
    DocType(id, <<"pdf", "png", "jpg", "jpeg">>, 10 * MB, id \o "_prompt.txt", 0, 0)

\* documentTypes.findIndex(type => type.id === id); 0 stands for -1
findIndex(reg, id) ==
    IF validateDocumentType(reg, id)
    THEN CHOOSE k \in 1..Len(reg) : /\ reg[k].id = id
                                    /\ \A j \in 1..(k - 1) : reg[j].id # id
    ELSE 0

\* { ...documentType, ...updates }
spread(documentType, updates) ==
    [f \in DOMAIN documentType |->
        IF f \in DOMAIN updates THEN updates[f] ELSE documentType[f]]

\* saveDocumentTypes: the error it throws when the write fails
saveDocumentTypes(reg, save) ==
    IF save = "fail"
    THEN [registry |-> reg, error |-> "Failed to save document types configuration"]
    ELSE [registry |-> reg, error |-> ""]

addDocumentType(reg, documentType, save) ==
    IF validateDocumentType(reg, documentType.id)
    THEN [registry |-> reg,
          error |-> "Document type with id '" \o documentType.id \o "' already exists"]
    ELSE saveDocumentTypes(Append(reg, documentType), save)

updateDocumentType(reg, id, updates, save) ==
    LET index == findIndex(reg, id)
    IN  IF index = 0
        THEN [registry |-> reg, error |-> "Document type with id '" \o id \o "' not found"]
        ELSE saveDocumentTypes([reg EXCEPT ![index] = spread(reg[index], updates)], save)

deleteDocumentType(reg, id, save) ==
    LET index == findIndex(reg, id)
    IN  IF index = 0
        THEN [registry |-> reg, error |-> "Document type with id '" \o id \o "' not found"]
        ELSE saveDocumentTypes(SubSeq(reg, 1, index - 1)
                               \o SubSeq(reg, index + 1, Len(reg)), save)

AdminResponse(status, message) ==
    [kind |-> "adminResponse", status |-> status, message |-> message]

\* the variables of the request in flight
pipelineVars == <<req, pc, i, savedFileNames, disk, deleteCalled, individualOffers,
                  verificationResults, llmCalls, pending, ocr, db, resp>>

\* POST /document-types
PostDocumentType ==
    /\ arg.kind = "admin" /\ arg.op = "add"
    /\ ret.kind = "none"
    /\ \E save \in SaveOutcomes :
         IF arg.id = ""
         THEN /\ ret' = AdminResponse(400, "Missing required fields: id, name, description")
              /\ UNCHANGED registry
         ELSE LET added == addDocumentType(registry, newDocumentType(arg.id), save)
              IN  /\ registry' = added.registry
                  /\ ret' = IF added.error = ""
                            THEN AdminResponse(201, "Document type added successfully")
                            ELSE AdminResponse(400, added.error)
    /\ UNCHANGED <<pipelineVars, arg>>

\* PUT /document-types/:id
PutDocumentType ==
    /\ arg.kind = "admin" /\ arg.op = "update"
    /\ ret.kind = "none"
    /\ \E save \in SaveOutcomes :
         LET updated == updateDocumentType(registry, arg.id, arg.updates, save)
         IN  /\ registry' = updated.registry
             /\ ret' = IF updated.error = ""
                       THEN AdminResponse(200, "Document type '" \o arg.id
                                               \o "' updated successfully")
                       ELSE AdminResponse(404, updated.error)
    /\ UNCHANGED <<pipelineVars, arg>>

\* DELETE /document-types/:id
DeleteDocumentType ==
    /\ arg.kind = "admin" /\ arg.op = "delete"
    /\ arg.id # ""
    /\ ret.kind = "none"
    /\ \E save \in SaveOutcomes :
         LET deleted == deleteDocumentType(registry, arg.id, save)
         IN  /\ registry' = deleted.registry
             /\ ret' = IF deleted.error = ""
                       THEN AdminResponse(200, "Document type '" \o arg.id
                                               \o "' deleted successfully")
                       ELSE AdminResponse(404, deleted.error)
    /\ UNCHANGED <<pipelineVars, arg>>

\* one administrative request and one pipeline request, in any interleaving
InitAdmin ==
    /\ registry = getDefaultDocumentTypes
    /\ req = NoRequest
    /\ pc = "idle"
    /\ i = 0
    /\ savedFileNames = <<>>
    /\ disk = {}
    /\ deleteCalled = {}
    /\ individualOffers = <<>>
    /\ verificationResults = <<>>
    /\ llmCalls = <<>>
    /\ pending = NoPending
    /\ ocr = 0
    /\ db = [constructed |-> FALSE, rows |-> 0]
    /\ resp = NoResponse
    /\ arg \in AdminRequests
    /\ ret = [kind |-> "none"]

NextAdmin ==
    \/ PostDocumentType
    \/ PutDocumentType
    \/ DeleteDocumentType
    \/ Next

SpecAdmin == InitAdmin /\ [][NextAdmin]_vars

----------------------------------------------------------------------------
(* Properties: POST /verify and verifyDocument *)

\* C1: every VerificationResult of a /verify request, returned by
\* verifyDocument or synthesized by the route after a failure, has
\* verified = true exactly when passedCount = totalCount, also for a checklist
\* without items.
C1_VerifiedIffAllPassed ==
    \A k \in 1..Len(verificationResults) :
        LET r == verificationResults[k]
        IN  r.verified <=> (r.passedCount = r.totalCount)

\* the items of the checklist of the verifyDocument call in `arg`
CallItems == getChecklist(arg.documentType).items

\* the result has one entry per checklist item, in checklist order, and
\* totalCount is the number of checklist items
OneEntryPerItem(r, items) ==
    /\ Len(r.checklist) = Len(items)
    /\ r.totalCount = Len(items)
    /\ \A k \in 1..Len(items) :
          r.checklist[k].id = items[k].id /\ r.checklist[k].label = items[k].label

AllItemsFailedWith(r, file, documentType, message) ==
    /\ r.fileName = originalname(file)
    /\ r.documentType = documentType
    /\ OneEntryPerItem(r, getChecklist(documentType).items)
    /\ ~r.verified
    /\ \A k \in 1..Len(r.checklist) :
          ~r.checklist[k].passed /\ r.checklist[k].reason = message

\* a step of POST /verify that pushes `r` for file i and goes on with file
\* i + 1, or answers after the last file
PushesAndContinues(r) ==
    /\ verificationResults' = Append(verificationResults, r)
    /\ Len(verificationResults') = i
    /\ IF i < Len(req.files)
       THEN pc' = "vstart" /\ i' = i + 1
       ELSE pc' = "done" /\ resp'.status = "success"

\* C3: POST /verify is not fail-fast.  Whatever failure verifyDocument raises
\* for file i (save, extraction, model, parse), one result for file i is
\* pushed with every checklist item passed = false and the failure's message
\* as reason, the files after i are still processed, and the response holds
\* one result per input file, in input order.
C3_VerifyNotFailFast ==
    /\ [](req.mode = "verify" /\ pc = "done" /\ i > 0 =>
            /\ resp.status = "success"
            /\ resp.data.kind = "verify"
            /\ Len(resp.data.documents) = Len(req.files)
            /\ \A k \in 1..Len(req.files) :
                  /\ resp.data.documents[k].fileName = originalname(req.files[k])
                  /\ resp.data.documents[k].documentType = req.documentTypes[k])
    /\ [][req.mode = "verify" =>
            /\ pc = "vfinally" /\ pending.kind = "error" =>
                  \E r \in {verificationResults'[Len(verificationResults')]} :
                     /\ AllItemsFailedWith(r, req.files[i], req.documentTypes[i],
                                           pending.error.message)
                     /\ PushesAndContinues(r)
            /\ pc = "save" /\ pc' # "extract" =>
                  \E r \in {verificationResults'[Len(verificationResults')]} :
                     /\ AllItemsFailedWith(r, req.files[i], req.documentTypes[i],
                                           saveFile(req.files[i], "fail").error.message)
                     /\ PushesAndContinues(r)]_vars

\* two files: the model call of the first is rate limited, the second is
\* verified
C3_Witness ==
    /\ req.mode = "verify"
    /\ pc = "done"
    /\ resp.status = "success"
    /\ Len(req.files) = 2
    /\ Len(resp.data.documents) = 2
    /\ resp.data.documents[1].totalCount = 2
    /\ resp.data.documents[1].checklist[1].reason = processDocument("status429").error.message
    /\ resp.data.documents[1].checklist[2].reason = processDocument("status429").error.message
    /\ ~resp.data.documents[1].verified
    /\ resp.data.documents[2].totalCount = 2
    /\ resp.data.documents[2].verified

----------------------------------------------------------------------------
(* Properties: the upload routes *)

\* the errors that only the comparison step of POST /upload/compare throws
ComparisonStepMessages ==
    {"Comparison prompt template not found",
     "Invalid comparison response: Invalid JSON response"}

\* C4: POST /upload/compare is fail-fast.  When the processing of file k
\* fails (save, extract, prompt lookup, model call, parse), no file after k is
\* saved, extracted or sent to the model, the comparison model call is not
\* made, and the request ends with an error of file k and without
\* individualOffers or comparison data.
C4_CompareFailFast ==
    req.mode = "compare" /\ pc = "done" /\ i > 0
      /\ Len(individualOffers) < Len(req.files) =>
        /\ i = Len(individualOffers) + 1
        /\ Len(savedFileNames) <= i
        /\ \A k \in 1..Len(savedFileNames) : savedFileNames[k] <= i
        /\ \A k \in 1..Len(llmCalls) : llmCalls[k] \in 1..i
        /\ resp.status = "error"
        /\ resp.error.message \notin ComparisonStepMessages \cup {""}
        /\ resp.data = NoData

\* three files: the model call of the second fails
C4_Witness ==
    /\ req.mode = "compare"
    /\ pc = "done"
    /\ Len(req.files) = 3
    /\ Len(individualOffers) = 1
    /\ savedFileNames = <<1, 2>>
    /\ llmCalls = <<1, 2>>
    /\ resp.status = "error"
    /\ resp.error = processDocument("status401").error
    /\ resp.data = NoData

\* C5: POST /upload/register.  A failure of one file fails the request; once
\* every file has been extracted no persistence failure aborts it: whichever
\* inserts fail, or when the database cannot be opened, the response is a
\* success with all individualOffers, and databaseSave.savedCount is the
\* number of records inserted, between 0 and the number of records.
C5_PersistenceNeverAborts ==
    /\ [](req.mode = "register" /\ pc = "done" /\ resp.status = "success" =>
            Len(resp.data.individualOffers) = Len(req.files))
    /\ [][pc = "db" =>
            /\ resp'.status = "success"
            /\ resp'.data.kind = "register"
            /\ resp'.data.individualOffers = individualOffers
            /\ resp'.data.databaseSave.savedCount = db'.rows - db.rows
            /\ resp'.data.databaseSave.savedCount \in 0..Len(individualOffers)]_vars

\* C6: when /upload, /upload/compare, /upload/register or verifyDocument has
\* finished, on the success path and on every failure path, deleteFile has
\* been called for every temporary file that saveFile stored.
C6_TempFilesDeleted ==
    pc = "done" => Range(savedFileNames) \subseteq deleteCalled

\* C7: every OCR worker that extractTextFromImage created is terminated
\* before the call returns or throws, whether recognition succeeds, yields no
\* text or fails: outside the call no worker is alive.
C7_WorkerTerminated ==
    /\ ocr \in {0, 1}
    /\ pc \notin {"ocr_recognize", "ocr_terminate"} => ocr = 0

\* recognition gave no text: the call has thrown and the worker is gone
C7_Witness ==
    /\ req.mode = "upload"
    /\ pc = "done"
    /\ resp.status = "error"
    /\ resp.error = recognizeResult("empty").error
    /\ ocr = 0

\* the codes of the validation-class errors: missing field, bad count,
\* unsupported type, file too large, unsupported format
ValidationCodes ==
    {"VALIDATION_ERROR", "UNSUPPORTED_DOCUMENT_TYPE", "FILE_TOO_LARGE", "INVALID_FILE_TYPE"}

\* C10: in /upload, /upload/compare, /upload/register and /verify no request
\* that ends with a validation-class error (missing file or type, unsupported
\* type, file count, size, format) has made a processDocument call.
C10_ValidationBeforeModelCall ==
    pc = "done" /\ resp.status = "error" /\ resp.error.code \in ValidationCodes =>
        llmCalls = <<>>

----------------------------------------------------------------------------
(* Properties: validateFileForDocumentType *)

\* C8: for every registered document type t and every file f,
\* validateFileForDocumentType(f, t).isValid = (f.size <= t.maxFileSize and
\* the extension of f is one of t.supportedFormats); the extension of a file
\* name is what path.extname gives, in lower case.
C8_ValidIffSizeAndFormat ==
    ret.kind = "validation" /\ validateDocumentType(registry, arg.documentTypeId) =>
        LET t == getDocumentTypeById(registry, arg.documentTypeId).type
        IN  ret.isValid <=>
              /\ arg.file.size <= t.maxFileSize
              /\ \E k \in 1..Len(t.supportedFormats) :
                    tempFileExtension(arg.file) = "." \o t.supportedFormats[k]

\* C9: validateFileForDocumentType checks in a fixed order.  An unknown
\* document type is reported first, then a size over the limit (the message
\* carries the limit), then an unsupported extension (the message lists the
\* formats): a file that violates several constraints gets the error of the
\* first check it fails.
C9_CheckOrder ==
    ret.kind = "validation" =>
        LET docType == getDocumentTypeById(registry, arg.documentTypeId)
            t == docType.type
        IN  /\ ~docType.found =>
                  ~ret.isValid /\ ret.error = "Unsupported document type"
            /\ docType.found /\ arg.file.size > t.maxFileSize =>
                  /\ ~ret.isValid
                  /\ ret.error = "File size exceeds maximum limit of "
                                 \o ToString(t.maxFileSize \div MB) \o "MB"
            /\ docType.found /\ arg.file.size <= t.maxFileSize /\ ~ret.isValid =>
                  ret.error = "Unsupported file format. Supported formats: "
                              \o Join(t.supportedFormats, ", ")
            /\ ret.isValid => ret.error = ""

\* a file that is too large and of an unsupported format gets the size error
C9_Witness ==
    /\ ret.kind = "validation"
    /\ arg.documentTypeId = "receipt"
    /\ arg.file.name = <<"doc", "txt">>
    /\ arg.file.size = 11 * MB
    /\ ~ret.isValid
    /\ ret.error = "File size exceeds maximum limit of 5MB"

----------------------------------------------------------------------------
(* Properties: extractTextFromFile *)

SupportedExtensions == {".pdf", ".png", ".jpg", ".jpeg", ".docx"}

\* the messages of the no-readable-text error, one per extractor
NoReadableTextMessages ==
    {extractTextFromPDF("empty").error.message,
     recognizeResult("empty").error.message,
     extractTextFromDOCX("empty").error.message}

\* C11: extractTextFromFile never returns an empty or whitespace-only text
\* as success.  For each supported format (pdf, png, jpg, jpeg, docx), when
\* the extractor yields no text or only whitespace the call fails with the
\* no-readable-text error; any other extension fails with the
\* unsupported-format error.
C11_NoEmptyTextAsSuccess ==
    ret.kind = "extraction" =>
        LET ext == tempFileExtension(arg.file)
            blank == \/ arg.raw.kind = "undefined"
                     \/ /\ arg.raw.kind = "text"
                        /\ \A k \in 1..Len(arg.raw.chars) : arg.raw.chars[k] \in Whitespace
        IN  /\ ret.ok => \E k \in 1..Len(ret.text) : ret.text[k] \notin Whitespace
            /\ arg.read = "ok" /\ ext \in SupportedExtensions /\ blank =>
                  /\ ~ret.ok
                  /\ ret.error.message \in NoReadableTextMessages
                  /\ ret.error.statusCode = 400
            /\ arg.read = "ok" /\ ext \notin SupportedExtensions =>
                  /\ ~ret.ok
                  /\ ret.error.code = "INVALID_FILE_TYPE"

\* a DOCX whose text is only whitespace
C11_Witness ==
    /\ ret.kind = "extraction"
    /\ arg.file.name = <<"cv", "docx">>
    /\ arg.read = "ok"
    /\ arg.raw = [kind |-> "text", chars |-> <<" ", "\n">>]
    /\ ~ret.ok
    /\ ret.error.message = "DOCX contains no readable text"

----------------------------------------------------------------------------
(* Properties: calculateConfidence *)

\* C12: calculateConfidence is total and bounded.  For every parsed record
\* and every document type id, also the ids without a required-field set
\* (angebotsvergleich, haushaltsrechnung, unknown ids), the result is a number
\* in [0, 1], never a non-number.
C12_ConfidenceInUnitInterval ==
    ret.kind = "confidence" =>
        /\ ~ret.value.isNaN
        /\ ret.value.den > 0
        /\ 0 <= ret.value.num
        /\ ret.value.num <= ret.value.den

\* the record with `field` holding a value
withField(extractedData, field) ==
    [k \in DOMAIN extractedData \cup {field} |->
        IF k = field THEN "value" ELSE extractedData[k]]

\* C13: calculateConfidence is monotonic in the required fields.  For a
\* document type with required fields, changing one required field of a
\* record from null or absent to a value, all else equal, never lowers the
\* score.
C13_ConfidenceMonotonic ==
    ret.kind = "confidence" /\ Len(requiredFields(arg.documentType)) > 0 =>
        \A k \in 1..Len(requiredFields(arg.documentType)) :
            LET field == requiredFields(arg.documentType)[k]
                more == calculateConfidence(withField(arg.extractedData, field),
                                            arg.documentType)
            IN  fieldOf(arg.extractedData, field) # "value" =>
                   /\ ~more.isNaN /\ ~ret.value.isNaN
                   /\ more.num * ret.value.den >= ret.value.num * more.den

\* an invoice whose vendorName is null scores less than with a vendorName
C13_Witness ==
    /\ ret.kind = "confidence"
    /\ arg.documentType = "invoice"
    /\ arg.extractedData["vendorName"] = "null"
    /\ arg.extractedData["invoiceNumber"] = "value"
    /\ arg.extractedData["notes"] = "absent"
    /\ arg.extractedData["currency"] = "absent"
    /\ ret.value.num
         < calculateConfidence(withField(arg.extractedData, "vendorName"), "invoice").num

\* C14: for a document type with n > 0 required fields calculateConfidence
\* returns min(1, (r + min(0.5 * e, 0.5 * n)) / n), r the number of the type's
\* required fields that are present and not null, e the number of record
\* keys outside the type's own required set; an invoice record with exactly
\* the four required keys, three of them not null, scores 0.75.
C14_ConfidenceFormula ==
    ret.kind = "confidence" /\ Len(requiredFields(arg.documentType)) > 0 =>
        LET own == Range(requiredFields(arg.documentType))
            n == Cardinality(own)
            r == Cardinality({f \in own : fieldOf(arg.extractedData, f) = "value"})
            e == Cardinality(keysOf(arg.extractedData) \ own)
        IN  /\ ~ret.value.isNaN
            /\ ret.value.num * (2 * n) = Min(2 * r + Min(e, n), 2 * n) * ret.value.den

----------------------------------------------------------------------------
(* Properties: validateLLMResponse *)

\* C15: validateLLMResponse accepts a reply only if its top-level JSON value
\* is an object.  A reply whose top-level value is an array, a string, a
\* number, a boolean or null yields isValid = false, and a reply that cannot
\* be parsed yields isValid = false (no exception).
C15_OnlyObjectsAccepted ==
    ret.kind = "llmValidation" =>
        /\ arg.body \in JsonArrays \cup JsonScalarTexts => ~ret.isValid
        /\ arg.body \in NotJson => ~ret.isValid /\ ret.error = "Invalid JSON response"

\* C16: parser round trip.  For every JSON object o and every wrapping of its
\* serialization (bare, inside a fence with or without json, with prose
\* before and/or after, fence plus prose) in which the text of o is the only
\* balanced {...} span, validateLLMResponse returns isValid = true with
\* parsedData equal to o.
C16_RoundTrip ==
    ret.kind = "llmValidation" /\ arg.body \in JsonObjects
      /\ ~(indexOf(arg.before, "{") # 0 /\ indexOf(arg.after, "}") # 0) =>
        /\ ret.isValid
        /\ ret.parsedData.type = "object"
        /\ ~ret.parsedData.isArray
        /\ ret.parsedData.text = SelectSeq(arg.body, NotWhitespace)

----------------------------------------------------------------------------
(* Properties: buildPrompt *)

\* C17: buildPrompt never drops the document text.  For every template and
\* every text the prompt contains the text verbatim; when the template holds
\* neither {DOCUMENT_TEXT} nor {DOCUMENT_CONTENT}, the prompt is the template
\* followed by a 'Document Content:' section with the text.
C17_TextNeverDropped ==
    ret.kind = "prompt" =>
        /\ includes(ret.prompt, arg.documentText)
        /\ /\ indexOf(arg.promptTemplate, "{DOCUMENT_TEXT}") = 0
           /\ indexOf(arg.promptTemplate, "{DOCUMENT_CONTENT}") = 0
           => ret.prompt = arg.promptTemplate \o documentContentSection \o arg.documentText

----------------------------------------------------------------------------
(* Properties: the model calls of a request *)

\* C18: no model call is retried.  Within one request processDocument is
\* invoked at most once per input file, plus once for the comparison prompt
\* in comparison mode, and after a model failure (authentication, rate limit,
\* empty reply, connectivity, other) no further model call is issued for that
\* document.
C18_NoRetry ==
    /\ \A j, k \in 1..Len(llmCalls) : j # k => llmCalls[j] # llmCalls[k]
    /\ \A k \in 1..Len(llmCalls) :
          /\ llmCalls[k] \in 0..Len(req.files)
          /\ llmCalls[k] = 0 => req.mode = "compare" /\ k = Len(llmCalls)
    /\ req.mode \in {"upload", "compare", "register"} /\ pc = "done"
         /\ resp.status = "error" /\ Len(llmCalls) > 0
         /\ resp.error \in {processDocument(o).error : o \in ProviderOutcomes \ {"content"}}
         => llmCalls[Len(llmCalls)] \in {0, i}

\* two files compared: the comparison call is rate limited and is the last call
C18_Witness ==
    /\ req.mode = "compare"
    /\ pc = "done"
    /\ Len(req.files) = 2
    /\ llmCalls = <<1, 2, 0>>
    /\ resp.status = "error"
    /\ resp.error = processDocument("status429").error

\* the failures of the provider that the error mapping tells apart
outcomeClass(outcome) ==
    CASE outcome = "status401" -> "authentication"
      [] outcome = "status429" -> "rateLimit"
      [] outcome = "noContent" -> "emptyReply"
      [] outcome \in {"ECONNREFUSED", "ENOTFOUND"} -> "connectivity"
      [] outcome = "otherError" -> "generic"
      [] OTHER -> "other"

\* the machine-readable part of an error: its code and its status
errorKind(error) == <<error.code, error.statusCode>>

\* C19: processDocument maps the provider's outcomes to distinct
\* machine-readable error kinds: authentication failure, rate limit, empty
\* reply and connectivity failure each have their own kind, different from
\* one another and from the generic error that carries the provider's
\* message.
C19_DistinctErrorKinds ==
    ret.kind = "llmResponse" /\ outcomeClass(arg.outcome) # "other" =>
        /\ ~ret.ok
        /\ \A o \in ProviderOutcomes :
              outcomeClass(o) \notin {"other", outcomeClass(arg.outcome)} =>
                 errorKind(processDocument(o).error) # errorKind(ret.error)

\* C20: when the prompt file a document type declares is missing,
\* getPromptTemplate returns null, so that the request fails with the
\* prompt-not-found error and no substitute template reaches the model.
C20_MissingTemplateIsNull ==
    ret.kind = "promptTemplate" /\ arg.promptFile = "missing" =>
        ret.template = "null"

----------------------------------------------------------------------------
(* Properties: the registry *)

\* C21: the registry is not mutated while a request reads it: whenever an
\* in-flight /upload, /upload/compare or /upload/register request looks up
\* its prompt template, the registry still holds the definition the request
\* validated against at its start, so the type is still registered and every
\* file of the request is still valid for it.
C21_LookupsSeeValidatedDefinition ==
    pc = "llm" /\ req.mode \in {"upload", "compare", "register"} =>
        /\ validateDocumentType(registry, req.documentType)
        /\ \A k \in 1..Len(req.files) :
              validateFileForDocumentType(registry, req.files[k], req.documentType).isValid

\* C29: the ids of the registry, pairwise distinct at startup, stay pairwise
\* distinct after add, update and delete.
C29_IdsStayUnique ==
    \A j, k \in 1..Len(registry) : j # k => registry[j].id # registry[k].id

----------------------------------------------------------------------------
(* Properties: the order of the files of a multi-file request *)

\* the steps a handler takes for the file at index i
PerFileSteps == {"vstart", "save", "extract", "ocr_create", "ocr_recognize",
                 "ocr_terminate", "llm", "vfinally"}

\* C22: a multi-file request handles its files one at a time in input order:
\* while file i is being handled every earlier file has been saved, sent to
\* the model and parsed (compare, register) or has its result (verify), no
\* later file has been touched, and a successful response holds one result
\* per input file, the k-th with the name of the k-th file.
C22_OneFileAtATimeInOrder ==
    /\ req.mode \in {"compare", "register"} /\ pc \in PerFileSteps =>
          /\ Len(individualOffers) = i - 1
          /\ \A k \in 1..(i - 1) :
                /\ individualOffers[k].fileName = originalname(req.files[k])
                /\ k \in Range(savedFileNames)
                /\ k \in Range(llmCalls)
          /\ Range(savedFileNames) \cup Range(llmCalls) \subseteq 1..i
          /\ pc = "save" => i \notin Range(savedFileNames)
          /\ pc # "save" => i \in Range(savedFileNames) /\ i \notin Range(llmCalls)
    /\ req.mode = "verify" /\ pc \in PerFileSteps =>
          /\ Len(verificationResults) = i - 1
          /\ \A k \in 1..(i - 1) :
                verificationResults[k].fileName = originalname(req.files[k])
          /\ Range(savedFileNames) \cup Range(llmCalls) \subseteq 1..i
    /\ pc = "done" /\ resp.status = "success" /\ resp.data.kind \in {"compare", "register"} =>
          /\ Len(resp.data.individualOffers) = Len(req.files)
          /\ \A k \in 1..Len(req.files) :
                resp.data.individualOffers[k].fileName = originalname(req.files[k])
    /\ pc = "done" /\ resp.status = "success" /\ resp.data.kind = "verify" =>
          /\ Len(resp.data.documents) = Len(req.files)
          /\ \A k \in 1..Len(req.files) :
                resp.data.documents[k].fileName = originalname(req.files[k])

C22_Witness ==
    /\ pc = "done" /\ resp.status = "success" /\ resp.data.kind = "verify"
    /\ Len(req.files) = 2
    /\ req.files[1].name # req.files[2].name
    /\ llmCalls = <<2>>

----------------------------------------------------------------------------
(* Properties: loading the configuration *)

\* C23: when the configuration file cannot be loaded (missing, unreadable,
\* malformed) neither constructor throws, the registry holds the built-in
\* default document types and the checklist table holds a default set of
\* checklists, so that it supports at least one document type.
C23_LoadFallsBackToDefaults ==
    /\ ret.kind = "documentTypes" /\ arg.config \in LoadFailures =>
          ~ret.threw /\ ret.documentTypes = getDefaultDocumentTypes
    /\ ret.kind = "checklists" /\ arg.config \in LoadFailures =>
          ~ret.threw /\ ret.supported # {}

----------------------------------------------------------------------------
(* Properties: the tenor of a loan offer *)

\* a calendar date written in a format
written(day, month, year, format) ==
    [kind |-> "date", format |-> format, day |-> day, month |-> month, year |-> year]

\* C24: calculateFixzinssatzInJahren gives '7 Jahre' for angebotsdatum
\* '01.01.2020' and fixzinsperiode '01.01.2027', and gives a fixzinsperiode
\* that is already written as 'N Jahre' back as it is, whatever the
\* angebotsdatum.
C24_TenorFromDatesOrText ==
    ret.kind = "fixzinssatz" =>
        /\ /\ arg.angebotsdatum = written(1, 1, 2020, "DD.MM.YYYY")
           /\ arg.fixzinsperiode = written(1, 1, 2027, "DD.MM.YYYY")
           => ret.value = "7 Jahre"
        /\ /\ arg.fixzinsperiode.kind = "years"
           /\ arg.fixzinsperiode.prefix = ""
           /\ arg.fixzinsperiode.suffix = " Jahre"
           => ret.value = textOf(arg.fixzinsperiode)

C24_Witness ==
    /\ ret.kind = "fixzinssatz"
    /\ arg.angebotsdatum = written(1, 1, 2020, "DD.MM.YYYY")
    /\ arg.fixzinsperiode = written(1, 1, 2027, "DD.MM.YYYY")
    /\ ret.value = "7 Jahre"

\* C25: the field fixzinssatz_in_jahren of an offer is 'nicht angegeben' or
\* 'N Jahre' with N between 0 and 50.
C25_TenorInRange ==
    ret.kind = "fixzinssatz" =>
        \/ ret.field = "nicht angegeben"
        \/ \E N \in 0..50 : ret.field = ToString(N) \o " Jahre"

\* C26: for two calendar dates the tenor calculateYearsBetweenDates computes
\* is the same in whichever of the three formats each date is written.
C26_SameTenorInEveryFormat ==
    ret.kind = "years" /\ arg.startDate.kind = "date" /\ arg.endDate.kind = "date" =>
        \A f, g \in DateFormats :
            calculateYearsBetweenDates([arg.startDate EXCEPT !.format = f],
                                       [arg.endDate EXCEPT !.format = g]) = ret.value

\* C27: in a /verify response overallVerified is true exactly when every
\* document of the response has verified = true.
C27_OverallVerifiedIffAllVerified ==
    pc = "done" /\ resp.status = "success" /\ resp.data.kind = "verify" =>
        (resp.data.overallVerified <=>
            \A k \in 1..Len(resp.data.documents) : resp.data.documents[k].verified)

C27_Witness ==
    /\ pc = "done" /\ resp.status = "success" /\ resp.data.kind = "verify"
    /\ Len(resp.data.documents) = 2
    /\ resp.data.documents[1].verified
    /\ ~resp.data.documents[2].verified
    /\ ~resp.data.overallVerified

\* C28: verifyDocument reports a checklist item as passed only if the reply's
\* entry for the item has passed equal to the boolean true; false, a missing
\* value or a string such as "false" gives passed = false.
C28_PassedOnlyIfBooleanTrue ==
    ret.kind = "verificationResult" =>
        \A k \in 1..Len(CallItems) :
            ret.result.checklist[k].passed =>
                /\ arg.parsedData.hasVerification
                /\ arg.parsedData.verification[CallItems[k].id].kind = "object"
                /\ arg.parsedData.verification[CallItems[k].id].passed = "true"

----------------------------------------------------------------------------
(* Properties: cleanup failures *)

\* the message of the AppError deleteFile throws when unlink fails
deleteFailedMessage == "Failed to delete file"

\* C30: a deleteFile that throws never changes the outcome of a request: its
\* error reaches no response and no verification result, the cleanup loop
\* goes on to the remaining files, and a successful response is sent after
\* deleteFile has been called for every saved file, deleted or not.
C30_CleanupFailureIsSilent ==
    /\ resp.error.message # deleteFailedMessage
    /\ \A k \in 1..Len(verificationResults) :
          \A j \in 1..Len(verificationResults[k].checklist) :
              verificationResults[k].checklist[j].reason # deleteFailedMessage
    /\ pc = "cleanup" => deleteCalled = {savedFileNames[k] : k \in 1..(i - 1)}
    /\ pc = "vstart" => deleteCalled = Range(savedFileNames)
    /\ pc \in {"db", "done"} /\ req.mode \in {"upload", "compare", "register"}
          /\ resp.status # "error"
          => deleteCalled = Range(savedFileNames)

C30_Witness ==
    /\ pc = "done" /\ req.mode = "compare" /\ resp.status = "success"
    /\ Len(savedFileNames) = 2
    /\ disk = {1}
    /\ deleteCalled = {1, 2}

====
